---- MODULE Spec2Model ----
(***************************************************************************)
(* Model of the holdings-view backend (src/api): the HoldingDB and         *)
(* WatchlistDB tables and the handlers of routes.py (portfolio, watchlist, *)
(* quote lookup, history lookup with its period reconciliation, news), the *)
(* memoized quote normalizer get_stock_info, determine_asset_type and      *)
(* calculate_sma_values of utils.py.  Numbers are integers; a float        *)
(* division is kept as an exact fraction <<numerator, denominator>>.       *)
(***************************************************************************)
EXTENDS Integers, Sequences, FiniteSets, TLC

VARIABLES
    holdings,   \* the committed rows of table "holdings" (a set of HoldingDB rows)
    pc,         \* the request that is between two commits (delete_holding), or Idle
    resp,       \* the last HTTP response sent
    provider,   \* what yfinance currently returns per symbol: info, 2d history, 1m bars
    cache,      \* the lru_cache of get_stock_info: symbol -> cached return value
    ret,        \* outcome of the most recent direct call of get_stock_info
    watchlist,  \* the committed rows of table "watchlist" (a set of WatchlistDB rows)
    history_call, \* the last history lookup: the request, and the
                \* stock.history(period, interval) call it sent to yfinance
    called,     \* the most recent direct call of a pure function of utils.py
    news_feed,  \* what yfinance currently does on stock.news: the items, or a raise
    adding      \* per concurrent add_to_portfolio request: the row it built
                \* after its two queries and has not committed yet, or None

vars == <<holdings, pc, resp, provider, cache, ret, watchlist, history_call, called,
          news_feed, adding>>

-----------------------------------------------------------------------------
(* Bounds and input sets *)

MaxReorder == 3     \* longest orderedSymbols list of a reorder request
MaxUpload == 2      \* longest holdings list of an upload request
MaxHist == 2        \* most bars in the 2d history

Owners == {"alice"}
Symbols == {"AAPL", "MSFT", "SPY"}

\* (shares, averageCost) pairs a request can carry; HoldingCreate has no validators
HoldingValues == {<<2, 3>>, <<1, 0>>}

SeqsUpTo(S, n) == UNION {[1..k -> S] : k \in 0..n}

HoldingCreateInputs ==
    {[symbol |-> s, shares |-> v[1], averageCost |-> v[2]] : s \in Symbols, v \in HoldingValues}

ReorderInputs == SeqsUpTo(Symbols, MaxReorder)

\* upload lists: any symbols, repeats included; the values alternate between
\* two different pairs, so that neighbours never carry the same values
UploadList(ss, pat) ==
    [i \in 1..Len(ss) |->
        [symbol |-> ss[i], shares |-> pat[2 - (i % 2)][1], averageCost |-> pat[2 - (i % 2)][2]]]

UploadInputs ==
    {UploadList(ss, pat) : ss \in SeqsUpTo(Symbols, MaxUpload),
                           pat \in {q \in HoldingValues \X HoldingValues : q[1] /= q[2]}}

-----------------------------------------------------------------------------
(* Optional values: None is the empty tuple, a present value v is <<v>> *)

None == <<>>
Some(v) == <<v>>

\* Python truthiness of an optional number: None and 0 are falsy
Truthy(o) == o /= None /\ o[1] /= 0

\* Python `a or b`: a when a is truthy, otherwise b
Or(a, b) == IF Truthy(a) THEN a ELSE b

-----------------------------------------------------------------------------
(* The holdings table and its queries *)

HoldingDB(u, s, sh, ac, p) ==
    [user_id |-> u, symbol |-> s, shares |-> sh, averageCost |-> ac, position |-> p]

\* FilterUser without its filter: the rows of every owner
FilterUserUnfiltered(db, u) == db

\* db.query(HoldingDB).filter(HoldingDB.user_id == user_id)
FilterUser(db, u) == {h \in db : h.user_id = u}

\* ... .filter(user_id == u, symbol == s).first(): the set holding the row, or {}
FilterUserSymbol(db, u, s) == {h \in db : h.user_id = u /\ h.symbol = s}

\* the composite primary key (user_id, symbol) of HoldingDB
PrimaryKeyOK(db) ==
    \A a, b \in db : (a.user_id = b.user_id /\ a.symbol = b.symbol) => a = b

\* .order_by(HoldingDB.position).all(): every listing of the rows in
\* non-decreasing position; rows of equal position come in an order the
\* database chooses
OrderByPosition(rows) ==
    {q \in [1..Cardinality(rows) -> rows] :
        /\ \A i, j \in 1..Cardinality(rows) : i /= j => q[i] /= q[j]
        /\ \A i, j \in 1..Cardinality(rows) : i < j => q[i].position <= q[j].position}

\* Renumber with enumerate(holdings, 1): the numbering starts at one
RenumberFromOne(q) == {[q[i] EXCEPT !.position = i] : i \in 1..Len(q)}

\* for i, h in enumerate(holdings): h.position = i
Renumber(q) == {[q[i] EXCEPT !.position = i - 1] : i \in 1..Len(q)}

\* for i, symbol in enumerate(orderedSymbols): if symbol in holding_map:
\*     holding_map[symbol].position = i
RECURSIVE ReorderLoop(_, _, _)
ReorderLoop(rows, orderedSymbols, i) ==
    IF i > Len(orderedSymbols) THEN rows
    ELSE ReorderLoop(
            {IF h.symbol = orderedSymbols[i] THEN [h EXCEPT !.position = i - 1] ELSE h : h \in rows},
            orderedSymbols, i + 1)

\* ReorderRows whose loop leaves out the first listed symbol
ReorderRowsFromSecond(rows, orderedSymbols) == ReorderLoop(rows, orderedSymbols, 2)

ReorderRows(rows, orderedSymbols) == ReorderLoop(rows, orderedSymbols, 1)

\* UploadHasDuplicates over whole holdings instead of their symbols
UploadHasDuplicateHoldings(hs) ==
    Cardinality({hs[i] : i \in 1..Len(hs)}) /= Len(hs)

\* symbols_in_upload = {h.symbol for h in holdings}; len(symbols_in_upload) != len(holdings)
UploadHasDuplicates(hs) ==
    Cardinality({hs[i].symbol : i \in 1..Len(hs)}) /= Len(hs)

\* UploadRows without position=i: every row keeps the column default 0
UploadRowsDefaultPosition(u, hs) ==
    {HoldingDB(u, hs[i].symbol, hs[i].shares, hs[i].averageCost, 0) : i \in 1..Len(hs)}

\* [HoldingDB(**h.model_dump(), position=i, user_id=user_id) for i, h in enumerate(holdings)]
UploadRows(u, hs) ==
    {HoldingDB(u, hs[i].symbol, hs[i].shares, hs[i].averageCost, i - 1) : i \in 1..Len(hs)}

\* last_position = db.query(HoldingDB).filter(user_id == user_id).count()
LastPosition(db, u) == Cardinality(FilterUser(db, u))

-----------------------------------------------------------------------------
(* Responses and the in-flight request *)

Idle == [op |-> "idle", user_id |-> "", symbol |-> ""]

Response(op, u, status, detail, body) ==
    [op |-> op, user |-> u, status |-> status, detail |-> detail, body |-> body]

NoBody == <<>>


-----------------------------------------------------------------------------
(* The market-data provider (yfinance) as the normalizer sees it *)

\* A string that is case-converted is a sequence of characters
LowerChar(c) ==
    CASE c = "E" -> "e" [] c = "T" -> "t" [] c = "F" -> "f" [] c = "Q" -> "q"
      [] c = "U" -> "u" [] c = "I" -> "i" [] c = "Y" -> "y" [] c = "C" -> "c"
      [] c = "R" -> "r" [] c = "P" -> "p" [] c = "O" -> "o" [] c = "N" -> "n"
      [] OTHER -> c

\* str.lower()
Lower(str) == [i \in 1..Len(str) |-> LowerChar(str[i])]

\* info.get(key): a key that is absent and a key holding null both give None.
\* info.get("quoteType", ""): None (absent key) gives the default, a present
\* key gives its value, which is Some(None) when the value is null.
DictGetDefault(entry, default) == IF entry = None THEN default ELSE entry[1]

\* `not info`: the dict is empty
InfoEmpty(info) == \A k \in DOMAIN info : info[k] = None

Info(cp, rmp, pcl, pre, qt, ms, sn, ln) ==
    [currentPrice |-> cp, regularMarketPrice |-> rmp, previousClose |-> pcl,
     preMarketPrice |-> pre, quoteType |-> qt, marketState |-> ms,
     shortName |-> sn, longName |-> ln,
     marketCap |-> None, regularMarketVolume |-> None, volume |-> None]

EmptyInfo == Info(None, None, None, None, None, None, None, None)

ProviderData(info, hist, bars) == [info |-> info, hist |-> hist, bars |-> bars]

-----------------------------------------------------------------------------
(* utils.get_stock_info and determine_asset_type *)

Returned(value, previous_close, hit) ==
    [kind |-> "return", exc |-> "", status |-> 200, detail |-> "",
     value |-> value, previous_close |-> previous_close, hit |-> hit]

Raised(exc, status, detail) ==
    [kind |-> "raise", exc |-> exc, status |-> status, detail |-> detail,
     value |-> None, previous_close |-> None, hit |-> FALSE]

\* a float quotient n / d, kept exact
Fraction(n, d) == <<n, d>>

\* str truthiness of an optional string
TruthyStr(o) == o /= None /\ o[1] /= ""
OrStr(a, b) == IF TruthyStr(a) THEN a ELSE b

\* quote_type = info.get("quoteType", "").lower(); None has no lower()
determine_asset_type(symbol, info) ==
    LET quote_type == DictGetDefault(info.quoteType, Some(<<>>))
    IN IF quote_type = None THEN Raised("AttributeError", 500, "")
       ELSE IF Lower(quote_type[1]) = <<"e", "t", "f">> THEN Returned("etf", None, FALSE)
       ELSE IF Lower(quote_type[1]) =
                 <<"c", "r", "y", "p", "t", "o", "c", "u", "r", "r", "e", "n", "c", "y">>
            THEN Returned("crypto", None, FALSE)
       ELSE Returned("stock", None, FALSE)

\* info.get("currentPrice") or info.get("regularMarketPrice") or info.get("previousClose")
InfoCurrentPrice(info) ==
    Or(Or(info.currentPrice, info.regularMarketPrice), info.previousClose)

\* the guard of the empty-history branch (utils.py:26)
InfoLacksPrice(info) == InfoEmpty(info) \/ info.regularMarketPrice = None

\* HistPreviousClose reading iloc[-1]: the last close instead of the first
HistPreviousCloseLast(hist) == hist[Len(hist)]

\* hist['Close'].iloc[0] if len(hist) > 1 else current_price
HistPreviousClose(hist) == IF Len(hist) > 1 THEN hist[1] ELSE hist[Len(hist)]

\* ChangePercent without the `if previous_close` guard
ChangePercentUnguarded(change, previous_close) == <<change * 100, previous_close>>

\* change_percent = (change / previous_close) * 100 if previous_close else 0
ChangePercent(change, previous_close) ==
    IF previous_close /= 0 THEN Fraction(change * 100, previous_close) ELSE Fraction(0, 1)

\* LastBarClose reading the first bar of the minute-level history
LastBarCloseFirst(bars) == bars[1]

\* data.tail(1)["Close"].iloc[0]: the close of the last minute-level bar
LastBarClose(bars) == bars[Len(bars)]

\* utils.py:49-76, reached with a current price that is not None
QuoteTail(symbol, d, current_price, previous_close_or_none) ==
    LET info == d.info
        previous_close ==
            IF previous_close_or_none = None THEN current_price ELSE previous_close_or_none
        change == current_price[1] - previous_close[1]
        change_percent == ChangePercent(change, previous_close[1])
        asset_type == determine_asset_type(symbol, info)
        market_state == info.marketState
        quote(pre, post) ==
            [symbol |-> symbol,
             name |-> OrStr(OrStr(info.shortName, info.longName), Some(symbol))[1],
             price |-> current_price[1],
             change |-> change,
             changePercent |-> change_percent,
             marketCap |-> info.marketCap,
             volume |-> Or(info.regularMarketVolume, info.volume),
             type |-> asset_type.value,
             preMarketPrice |-> pre,
             postMarketPrice |-> post,
             marketState |-> market_state]
    IN IF asset_type.kind = "raise" THEN asset_type
       ELSE IF market_state = Some("PRE")
            THEN Returned(quote(info.preMarketPrice, None), previous_close, FALSE)
       ELSE IF market_state = Some("POST")
            THEN IF d.bars = <<>>
                 THEN Raised("IndexError", 500, "")
                 ELSE Returned(quote(None, Some(LastBarClose(d.bars))), previous_close, FALSE)
       ELSE Returned(quote(Some(0), Some(0)), previous_close, FALSE)

\* the body of get_stock_info (utils.py:14-76) on what the provider returns
GetStockInfoBody(symbol, d) ==
    LET info == d.info
        hist == d.hist
    IN IF hist = <<>> /\ InfoLacksPrice(info)
       THEN Raised("HTTPException", 404, "Could not retrieve data for symbol")
       ELSE LET current_price ==
                    IF hist = <<>> THEN InfoCurrentPrice(info) ELSE Some(hist[Len(hist)])
                previous_close ==
                    IF hist = <<>> THEN Or(info.previousClose, current_price)
                    ELSE Some(HistPreviousClose(hist))
            IN IF current_price /= None
               THEN QuoteTail(symbol, d, current_price, previous_close)
               ELSE IF InfoEmpty(info)
                    THEN Raised("HTTPException", 404, "Could not retrieve data for symbol")
               ELSE IF InfoCurrentPrice(info) = None
                    THEN Raised("HTTPException", 404,
                                "Could not determine current price for symbol")
               ELSE QuoteTail(symbol, d, InfoCurrentPrice(info),
                              Or(info.previousClose, InfoCurrentPrice(info)))

\* @lru_cache(): a cached return value is handed back without running the
\* body; only a normal return is stored
CachedGetStockInfo(c, prov, symbol) ==
    IF c[symbol] /= None
    THEN Returned(c[symbol][1], None, TRUE)
    ELSE GetStockInfoBody(symbol, prov[symbol])

\* CacheAfter storing every outcome, a raise included
CacheAfterAnyOutcome(c, symbol, outcome) == [c EXCEPT ![symbol] = Some(outcome.value)]

CacheAfter(c, symbol, outcome) ==
    IF outcome.kind = "return" THEN [c EXCEPT ![symbol] = Some(outcome.value)] ELSE c

EmptyCache == [s \in Symbols |-> None]

-----------------------------------------------------------------------------
(* routes.get_portfolio: the valuation of the stored holdings *)

RECURSIVE SumSeq(_)
SumSeq(q) == IF q = <<>> THEN 0 ELSE q[1] + SumSeq(Tail(q))

\* the entry of a holding whose quote was obtained (routes.py:70-102)
ValuedHolding(holding, stock_data) ==
    LET current_price == stock_data.price
        change == stock_data.change
        shares == holding.shares
        avg_cost == holding.averageCost
        value == shares * current_price
        gain == (current_price - avg_cost) * shares
        gain_percent ==
            IF avg_cost > 0 THEN Fraction((current_price - avg_cost) * 100, avg_cost)
            ELSE Fraction(0, 1)
        day_change_value == change * shares
    IN [symbol |-> holding.symbol, shares |-> shares, averageCost |-> avg_cost,
        name |-> stock_data.name,
        currentPrice |-> Some(current_price), change |-> Some(change),
        changePercent |-> Some(stock_data.changePercent),
        value |-> Some(value), gain |-> Some(gain), gainPercent |-> Some(gain_percent),
        type |-> Some(stock_data.type),
        preMarketPrice |-> stock_data.preMarketPrice,
        postMarketPrice |-> stock_data.postMarketPrice,
        marketState |-> stock_data.marketState,
        day_change_value |-> day_change_value,
        start_value |-> value - day_change_value]

\* the entry of a holding whose quote raised (routes.py:114-126)
DataErrorHolding(holding) ==
    [symbol |-> holding.symbol, shares |-> holding.shares,
     averageCost |-> holding.averageCost,
     name |-> holding.symbol \o " (Data Error)",
     currentPrice |-> None, change |-> None, changePercent |-> None,
     value |-> None, gain |-> None, gainPercent |-> None, type |-> None,
     preMarketPrice |-> None, postMarketPrice |-> None, marketState |-> None,
     day_change_value |-> 0, start_value |-> 0]

\* for holding in db_holdings: try get_stock_info ... except Exception
\* (routes.py:67-126); the cache fills as the loop goes
RECURSIVE PortfolioLoop(_, _, _, _, _)
PortfolioLoop(db_holdings, i, c, prov, updated_portfolio) ==
    IF i > Len(db_holdings) THEN [entries |-> updated_portfolio, cache |-> c]
    ELSE LET holding == db_holdings[i]
             outcome == CachedGetStockInfo(c, prov, holding.symbol)
             entry == IF outcome.kind = "return"
                      THEN ValuedHolding(holding, outcome.value)
                      ELSE DataErrorHolding(holding)
         IN PortfolioLoop(db_holdings, i + 1, CacheAfter(c, holding.symbol, outcome), prov,
                          Append(updated_portfolio, entry))

\* PortfolioSummary with the cost basis summed over the valued entries only
PortfolioSummaryValuedCost(db_holdings, updated_portfolio) ==
    LET n == Len(updated_portfolio)
        total_value ==
            SumSeq([i \in 1..n |-> IF updated_portfolio[i].value /= None
                                   THEN updated_portfolio[i].value[1] ELSE 0])
        total_cost_basis ==
            SumSeq([i \in 1..n |-> IF updated_portfolio[i].value /= None
                                   THEN updated_portfolio[i].shares
                                            * updated_portfolio[i].averageCost
                                   ELSE 0])
    IN [totalValue |-> total_value,
        totalGain |-> total_value - total_cost_basis,
        totalGainPercent |-> <<0, 1>>,
        dayChange |-> SumSeq([i \in 1..n |-> updated_portfolio[i].day_change_value]),
        dayChangePercent |-> <<0, 1>>]

\* the portfolio summary (routes.py:129-133)
PortfolioSummary(db_holdings, updated_portfolio) ==
    LET n == Len(updated_portfolio)
        total_day_change_value ==
            SumSeq([i \in 1..n |-> updated_portfolio[i].day_change_value])
        total_start_value == SumSeq([i \in 1..n |-> updated_portfolio[i].start_value])
        total_value ==
            SumSeq([i \in 1..n |-> IF updated_portfolio[i].value /= None
                                   THEN updated_portfolio[i].value[1] ELSE 0])
        total_cost_basis ==
            SumSeq([i \in 1..Len(db_holdings) |->
                        db_holdings[i].shares * db_holdings[i].averageCost])
        total_gain == total_value - total_cost_basis
    IN [totalValue |-> total_value,
        totalGain |-> total_gain,
        totalGainPercent |->
            IF total_cost_basis > 0 THEN Fraction(total_gain * 100, total_cost_basis)
            ELSE Fraction(0, 1),
        dayChange |-> total_day_change_value,
        dayChangePercent |->
            IF total_start_value > 0
            THEN Fraction(total_day_change_value * 100, total_start_value)
            ELSE Fraction(0, 1)]

\* the fields of an entry that go into the response
ResponseHolding(e) ==
    [k \in DOMAIN e \ {"day_change_value", "start_value"} |-> e[k]]

get_portfolio(u, query_ok) ==
    /\ UNCHANGED <<holdings, pc, provider, ret, watchlist, history_call, called, news_feed, adding>>
    /\ IF ~query_ok
       THEN /\ resp' = Response("get_portfolio", u, 500, "Database error fetching portfolio.",
                                NoBody)
            /\ UNCHANGED cache
       ELSE \E db_holdings \in OrderByPosition(FilterUser(holdings, u)) :
              LET loop == PortfolioLoop(db_holdings, 1, cache, provider, <<>>)
              IN /\ cache' = loop.cache
                 /\ resp' = Response("get_portfolio", u, 200, "",
                        [holdings |-> [i \in 1..Len(loop.entries) |->
                                            ResponseHolding(loop.entries[i])],
                         summary |-> PortfolioSummary(db_holdings, loop.entries)])

-----------------------------------------------------------------------------
(* routes.py: the handlers that write the holdings table *)

\* add_to_portfolio without the check for an existing holding: the new row
\* takes the place of the stored one
add_to_portfolio_replacing(u, holding_data, commit_ok) ==
    /\ pc = Idle
    /\ LET new_holding == HoldingDB(u, holding_data.symbol, holding_data.shares,
                                    holding_data.averageCost, LastPosition(holdings, u))
       IN IF commit_ok
          THEN /\ holdings' = (holdings \ FilterUserSymbol(holdings, u, holding_data.symbol))
                                  \cup {new_holding}
               /\ resp' = Response("add_to_portfolio", u, 200, "", new_holding)
          ELSE /\ UNCHANGED holdings
               /\ resp' = Response("add_to_portfolio", u, 500,
                                   "Database error adding holding.", NoBody)
    /\ UNCHANGED <<pc, provider, cache, ret, watchlist, history_call, called, news_feed, adding>>

add_to_portfolio(u, holding_data, commit_ok) ==
    /\ pc = Idle
    /\ IF FilterUserSymbol(holdings, u, holding_data.symbol) /= {}
       THEN /\ resp' = Response("add_to_portfolio", u, 400,
                                "Holding already exists. Use PUT to update.", NoBody)
            /\ UNCHANGED holdings
       ELSE LET new_holding == HoldingDB(u, holding_data.symbol, holding_data.shares,
                                         holding_data.averageCost, LastPosition(holdings, u))
            IN IF commit_ok /\ PrimaryKeyOK(holdings \cup {new_holding})
               THEN /\ holdings' = holdings \cup {new_holding}
                    /\ resp' = Response("add_to_portfolio", u, 200, "", new_holding)
               ELSE /\ UNCHANGED holdings
                    /\ resp' = Response("add_to_portfolio", u, 500,
                                        "Database error adding holding.", NoBody)
    /\ UNCHANGED <<pc, provider, cache, ret, watchlist, history_call, called, news_feed, adding>>

update_holding(u, symbol, shares, average_cost, commit_ok) ==
    /\ pc = Idle
    /\ IF FilterUserSymbol(holdings, u, symbol) = {}
       THEN /\ resp' = Response("update_holding", u, 404, "Holding not found", NoBody)
            /\ UNCHANGED holdings
       ELSE LET db_holding == CHOOSE h \in FilterUserSymbol(holdings, u, symbol) : TRUE
                updated == [db_holding EXCEPT !.shares = shares, !.averageCost = average_cost]
            IN IF commit_ok
               THEN /\ holdings' = (holdings \ {db_holding}) \cup {updated}
                    /\ resp' = Response("update_holding", u, 200, "", updated)
               ELSE /\ UNCHANGED holdings
                    /\ resp' = Response("update_holding", u, 500,
                                        "Database error updating holding.", NoBody)
    /\ UNCHANGED <<pc, provider, cache, ret, watchlist, history_call, called, news_feed, adding>>

\* delete_holding up to its first commit (routes.py:197-203)
delete_holding(u, symbol, commit_ok) ==
    /\ pc = Idle
    /\ UNCHANGED <<provider, cache, ret, watchlist, history_call, called, news_feed, adding>>
    /\ IF FilterUserSymbol(holdings, u, symbol) = {}
       THEN /\ resp' = Response("delete_holding", u, 404, "Holding not found", NoBody)
            /\ UNCHANGED <<holdings, pc>>
       ELSE IF commit_ok
            THEN /\ holdings' = holdings \ FilterUserSymbol(holdings, u, symbol)
                 /\ pc' = [op |-> "delete_holding", user_id |-> u, symbol |-> symbol]
                 /\ UNCHANGED resp
            ELSE /\ UNCHANGED <<holdings, pc>>
                 /\ resp' = Response("delete_holding", u, 500,
                                     "Database error deleting holding.", NoBody)

\* delete_holding from its first commit on: the renumbering and the second
\* commit (routes.py:205-214)
delete_holding_renumber(commit_ok) ==
    /\ pc.op = "delete_holding"
    /\ pc' = Idle
    /\ UNCHANGED <<provider, cache, ret, watchlist, history_call, called, news_feed, adding>>
    /\ IF commit_ok
       THEN \E listed \in OrderByPosition(FilterUser(holdings, pc.user_id)) :
              /\ holdings' = (holdings \ FilterUser(holdings, pc.user_id)) \cup Renumber(listed)
              /\ resp' = Response("delete_holding", pc.user_id, 200,
                                  "Holding deleted successfully", NoBody)
       ELSE /\ UNCHANGED holdings
            /\ resp' = Response("delete_holding", pc.user_id, 500,
                                "Database error deleting holding.", NoBody)

\* reorder_portfolio has no except clause: a failed commit leaves the handler
\* as an unhandled error, and closing the session discards the changes
reorder_portfolio(u, orderedSymbols, commit_ok) ==
    /\ pc = Idle
    /\ IF commit_ok
       THEN /\ holdings' = (holdings \ FilterUser(holdings, u))
                               \cup ReorderRows(FilterUser(holdings, u), orderedSymbols)
            /\ resp' = Response("reorder_portfolio", u, 200, "Portfolio reordered", NoBody)
       ELSE /\ UNCHANGED holdings
            /\ resp' = Response("reorder_portfolio", u, 500, "Internal Server Error", NoBody)
    /\ UNCHANGED <<pc, provider, cache, ret, watchlist, history_call, called, news_feed, adding>>

upload_portfolio(u, hs, commit_ok) ==
    /\ pc = Idle
    /\ IF hs = <<>>
       THEN /\ resp' = Response("upload_portfolio", u, 400,
                                "No valid holdings data received.", NoBody)
            /\ UNCHANGED holdings
       ELSE IF UploadHasDuplicates(hs)
       THEN /\ resp' = Response("upload_portfolio", u, 400,
                                "Duplicate symbols found in upload data.", NoBody)
            /\ UNCHANGED holdings
       ELSE LET replaced == (holdings \ FilterUser(holdings, u)) \cup UploadRows(u, hs)
            IN IF commit_ok /\ PrimaryKeyOK(replaced)
               THEN /\ holdings' = replaced
                    /\ resp' = Response("upload_portfolio", u, 200,
                                        "holdings uploaded successfully and portfolio overwritten.",
                                        Len(hs))
               ELSE /\ UNCHANGED holdings
                    /\ resp' = Response("upload_portfolio", u, 500,
                                        "Database error uploading portfolio.", NoBody)
    /\ UNCHANGED <<pc, provider, cache, ret, watchlist, history_call, called, news_feed, adding>>

-----------------------------------------------------------------------------
(* A direct call of the memoized get_stock_info *)

NoCall == [symbol |-> "", kind |-> "none", exc |-> "", status |-> 0, detail |-> "",
           value |-> None, previous_close |-> None, hit |-> FALSE]

get_stock_info(symbol) ==
    LET outcome == CachedGetStockInfo(cache, provider, symbol)
    IN /\ ret' = [symbol |-> symbol, kind |-> outcome.kind, exc |-> outcome.exc,
                  status |-> outcome.status, detail |-> outcome.detail,
                  value |-> outcome.value, previous_close |-> outcome.previous_close,
                  hit |-> outcome.hit]
       /\ cache' = CacheAfter(cache, symbol, outcome)
       /\ UNCHANGED <<holdings, pc, resp, provider, watchlist, history_call, called, news_feed, adding>>

-----------------------------------------------------------------------------
(* Specifications *)

NoResponse == Response("none", "", 0, "", NoBody)

\* stock.news returns an empty list
NoNews == [kind |-> "return", news |-> <<>>]

\* the concurrent requests an add can arrive as, none of them under way
Requests == {1, 2}
NoAdds == [r \in Requests |-> None]

\* no pure function has been called directly yet
NoPureCall == [fn |-> "none", args |-> <<>>, outcome |-> <<>>]

\* provider data of the store specification: the provider has no quote for
\* any symbol (nothing known, metadata with a null quoteType, a POST session
\* without minute bars)
StoreProvider ==
    [s \in Symbols |->
        CASE s = "AAPL" ->
               ProviderData(Info(Some(12), Some(12), Some(10), None,
                                 Some(Some(<<"E", "Q", "U", "I", "T", "Y">>)),
                                 Some("POST"), Some("Apple Inc."), None),
                            <<10, 12>>, <<>>)
          [] s = "MSFT" -> ProviderData(EmptyInfo, <<>>, <<>>)
          [] OTHER ->
               ProviderData(Info(None, Some(9), None, None, Some(None), None, None, None),
                            <<9>>, <<>>)]

Init ==
    /\ holdings = {}
    /\ pc = Idle
    /\ resp = NoResponse
    /\ provider = StoreProvider
    /\ cache = EmptyCache
    /\ ret = NoCall
    /\ watchlist = {}
    /\ history_call = None
    /\ news_feed = NoNews
    /\ called = NoPureCall
    /\ adding = NoAdds

Next ==
    \E u \in Owners :
        \/ \E h \in HoldingCreateInputs, ok \in BOOLEAN : add_to_portfolio(u, h, ok)
        \/ \E s \in Symbols, v \in HoldingValues, ok \in BOOLEAN :
              update_holding(u, s, v[1], v[2], ok)
        \/ \E s \in Symbols, ok \in BOOLEAN : delete_holding(u, s, ok)
        \/ \E ok \in BOOLEAN : delete_holding_renumber(ok)
        \/ \E l \in ReorderInputs, ok \in BOOLEAN : reorder_portfolio(u, l, ok)
        \/ \E hs \in UploadInputs, ok \in BOOLEAN : upload_portfolio(u, hs, ok)
        \/ \E ok \in BOOLEAN : get_portfolio(u, ok)

Spec == Init /\ [][Next]_vars

-----------------------------------------------------------------------------
(* SpecQuote: get_stock_info called on every provider answer of a bounded set *)

HistPrices == {0, 10, 12}
HistInputs == SeqsUpTo(HistPrices, MaxHist)
BarsInputs == {<<>>, <<11, 13>>}

InfoInputs ==
    {Info(cp, rmp, pcl, pre, qt, ms, names[1], names[2]) :
        cp \in {None, Some(0), Some(11)},
        rmp \in {None, Some(0), Some(12)},
        pcl \in {None, Some(0), Some(9)},
        pre \in {None, Some(14)},
        qt \in {None, Some(None), Some(Some(<<"E", "T", "F">>)),
                Some(Some(<<"E", "Q", "U", "I", "T", "Y">>))},
        ms \in {None, Some("PRE"), Some("POST"), Some("REGULAR")},
        names \in {<<None, None>>, <<None, Some("Apple Inc.")>>}}

ProviderInputs ==
    {ProviderData(info, hist, bars) :
        info \in InfoInputs, hist \in HistInputs, bars \in BarsInputs}

QuoteSymbols == {"AAPL"}

InitQuote ==
    /\ holdings = {}
    /\ pc = Idle
    /\ resp = NoResponse
    /\ \E d \in ProviderInputs : provider = [s \in Symbols |-> d]
    /\ cache = EmptyCache
    /\ ret = NoCall
    /\ watchlist = {}
    /\ history_call = None
    /\ news_feed = NoNews
    /\ called = NoPureCall
    /\ adding = NoAdds

NextQuote == \E s \in QuoteSymbols : get_stock_info(s)

SpecQuote == InitQuote /\ [][NextQuote]_vars

-----------------------------------------------------------------------------
(* SpecValuation: get_portfolio over every stored table and provider answer
   of a bounded set *)

\* the tables one owner can have stored: any of the symbols, each on any
\* position a reorder can write
ValuationTables ==
    LET rows(u) == {HoldingDB(u, s, v[1], v[2], p) :
                        s \in Symbols, v \in HoldingValues, p \in 0..(MaxReorder - 1)}
    IN UNION {{t \in SUBSET rows(u) : PrimaryKeyOK(t)} : u \in Owners}

\* what the provider can answer for a symbol: a two-day history, only
\* metadata in a PRE session, nothing at all
ValuationData ==
    {ProviderData(Info(Some(12), Some(12), Some(10), None,
                       Some(Some(<<"E", "T", "F">>)), Some("REGULAR"), None, None),
                  <<10, 12>>, <<>>),
     ProviderData(Info(None, Some(9), Some(11), Some(8), None, Some("PRE"),
                       Some("Apple Inc."), None),
                  <<>>, <<>>),
     ProviderData(EmptyInfo, <<>>, <<>>)}

InitValuation ==
    /\ holdings \in ValuationTables
    /\ pc = Idle
    /\ resp = NoResponse
    /\ provider \in [Symbols -> ValuationData]
    /\ cache = EmptyCache
    /\ ret = NoCall
    /\ watchlist = {}
    /\ history_call = None
    /\ news_feed = NoNews
    /\ called = NoPureCall
    /\ adding = NoAdds

NextValuation == \E u \in Owners, ok \in BOOLEAN : get_portfolio(u, ok)

SpecValuation == InitValuation /\ [][NextValuation]_vars

-----------------------------------------------------------------------------
(* Properties of the holdings store, checked under Spec *)

PositionsOf(db, u) == {h.position : h \in FilterUser(db, u)}

\* the positions of owner u are exactly 0..N-1, each used once
DensePositions(db, u) ==
    /\ PositionsOf(db, u) = 0..(Cardinality(FilterUser(db, u)) - 1)
    /\ \A a, b \in FilterUser(db, u) : a.position = b.position => a = b

\* C1: whenever no request is in flight, every owner's N holdings have
\* exactly the positions 0..N-1, without duplicate or gap, whatever requests
\* (reorders with any orderedSymbols list included) came before.
C1_PositionsAlwaysDense ==
    pc = Idle => \A u \in Owners : DensePositions(holdings, u)

\* the row of owner u for symbol s, with its position left out
SamePayload(a, b) ==
    a.user_id = b.user_id /\ a.symbol = b.symbol
        /\ a.shares = b.shares /\ a.averageCost = b.averageCost

\* C2: a successful delete_holding removes exactly the named row (first
\* commit) and then leaves the owner's remaining N-1 holdings, none added,
\* lost or altered, on positions 0..N-2 in the relative order they had
\* before (second commit).
C2_DeleteRenumbersInOrder ==
    [][ /\ (pc = Idle /\ pc'.op = "delete_holding") =>
              /\ \E h \in holdings : h.user_id = pc'.user_id /\ h.symbol = pc'.symbol
              /\ holdings' = {h \in holdings :
                                ~(h.user_id = pc'.user_id /\ h.symbol = pc'.symbol)}
        /\ (pc.op = "delete_holding" /\ resp'.op = "delete_holding" /\ resp'.status = 200) =>
              LET before == FilterUser(holdings, pc.user_id)
                  after == FilterUser(holdings', pc.user_id)
              IN /\ Cardinality(after) = Cardinality(before)
                 /\ \A a \in before : \E b \in after : SamePayload(a, b)
                 /\ DensePositions(holdings', pc.user_id)
                 /\ \A a1, a2 \in before, b1, b2 \in after :
                        (SamePayload(a1, b1) /\ SamePayload(a2, b2)
                            /\ a1.position < a2.position) => b1.position < b2.position
                 /\ holdings' \ after = holdings \ before
      ]_vars

\* a delete that went through both commits with at least two holdings left
C2_Witness ==
    /\ resp.op = "delete_holding" /\ resp.status = 200 /\ pc = Idle
    /\ \E u \in Owners : Cardinality(FilterUser(holdings, u)) >= 2

\* C3: a multi-row holdings operation is atomic: every step that changes the
\* committed rows is the one and only commit of a request, which then answers
\* with success; no request is left between two commits and no request that
\* answers with an error has changed the rows.
C3_OperationsAtomic ==
    [][ holdings' /= holdings => (pc' = Idle /\ pc = Idle /\ resp'.status = 200) ]_vars

\* the upload lists in which some symbol occurs more than once
DuplicateUploadInputs ==
    {hs \in UploadInputs : \E i, j \in 1..Len(hs) : i < j /\ hs[i].symbol = hs[j].symbol}

\* C4: an upload whose list names a symbol twice is answered with the 400
\* error and leaves the stored rows exactly as they were: no upload step
\* that answers otherwise, or that changes a row, is the upload of such a list.
C4_DuplicateUploadRejected ==
    [][ (resp'.op = "upload_portfolio" /\ ~(resp'.status = 400 /\ holdings' = holdings)) =>
          \A u \in Owners, hs \in DuplicateUploadInputs, ok \in BOOLEAN :
              ~upload_portfolio(u, hs, ok)
      ]_vars

\* a duplicate upload was rejected while the owner had holdings to lose
C4_Witness ==
    /\ resp.op = "upload_portfolio" /\ resp.status = 400
    /\ resp.detail = "Duplicate symbols found in upload data."
    /\ FilterUser(holdings, resp.user) /= {}

\* C5: a successful upload of a list of N distinct symbols stores exactly
\* those N holdings on positions 0..N-1 in list order and nothing of the old
\* portfolio, and the portfolio read that follows it at once lists exactly
\* these N holdings, the i-th entry being the one stored on position i.
C5_UploadThenRead ==
    [][ /\ (resp'.op = "upload_portfolio" /\ resp'.status = 200) =>
              \A u \in Owners, hs \in UploadInputs :
                  upload_portfolio(u, hs, TRUE) =>
                      /\ Cardinality(FilterUser(holdings', u)) = Len(hs)
                      /\ \A i \in 1..Len(hs) :
                            \E h \in FilterUser(holdings', u) :
                                /\ h.symbol = hs[i].symbol /\ h.shares = hs[i].shares
                                /\ h.averageCost = hs[i].averageCost
                                /\ h.position = i - 1
        /\ (/\ resp.op = "upload_portfolio" /\ resp.status = 200 /\ pc = Idle
            /\ resp'.op = "get_portfolio" /\ resp'.status = 200
            /\ resp'.user = resp.user) =>
              LET listed == resp'.body.holdings
              IN /\ Len(listed) = resp.body
                 /\ Len(listed) = Cardinality(FilterUser(holdings, resp.user))
                 /\ \A i \in 1..Len(listed) :
                        \E h \in FilterUser(holdings, resp.user) :
                            /\ h.position = i - 1
                            /\ h.symbol = listed[i].symbol
                            /\ h.shares = listed[i].shares
                            /\ h.averageCost = listed[i].averageCost
      ]_vars

\* an upload of at least two holdings succeeded
C5_Witness ==
    /\ resp.op = "upload_portfolio" /\ resp.status = 200 /\ resp.body >= 2
    /\ Cardinality(FilterUser(holdings, resp.user)) = resp.body

\* orderedSymbols lists every symbol the owner holds exactly once
IsPermutationOfHeld(orderedSymbols, db, u) ==
    /\ Len(orderedSymbols) = Cardinality(FilterUser(db, u))
    /\ {orderedSymbols[i] : i \in 1..Len(orderedSymbols)} = {h.symbol : h \in FilterUser(db, u)}

\* C24: a reorder that is answered with success and whose orderedSymbols is
\* a permutation of the owner's held symbols leaves the owner exactly the
\* holdings held before, each with its shares and average cost, the i-th
\* listed symbol on the i-th position (counted from 0), and leaves every
\* other row alone; the portfolio read that follows it at once lists the
\* holdings by these positions, so in the order of orderedSymbols.
C24_ReorderPermutation ==
    [][ /\ (resp'.op = "reorder_portfolio" /\ resp'.status = 200) =>
              \A u \in Owners, l \in ReorderInputs :
                  (IsPermutationOfHeld(l, holdings, u) /\ reorder_portfolio(u, l, TRUE)) =>
                      LET before == FilterUser(holdings, u)
                          after == FilterUser(holdings', u)
                      IN /\ Cardinality(after) = Cardinality(before)
                         /\ \A a \in before : \E b \in after : SamePayload(a, b)
                         /\ \A i \in 1..Len(l) :
                                \E b \in after : b.symbol = l[i] /\ b.position = i - 1
                         /\ holdings' \ after = holdings \ before
        /\ (/\ resp.op = "reorder_portfolio" /\ resp.status = 200 /\ pc = Idle
            /\ resp'.op = "get_portfolio" /\ resp'.status = 200
            /\ resp'.user = resp.user) =>
              LET listed == resp'.body.holdings
                  stored == FilterUser(holdings, resp.user)
              IN /\ Len(listed) = Cardinality(stored)
                 /\ \A h \in stored : \E i \in 1..Len(listed) :
                        /\ listed[i].symbol = h.symbol
                        /\ listed[i].shares = h.shares
                        /\ listed[i].averageCost = h.averageCost
                 /\ \A i, j \in 1..Len(listed) :
                        \A hi, hj \in stored :
                            (i < j /\ hi.symbol = listed[i].symbol
                                   /\ hj.symbol = listed[j].symbol) =>
                                hi.position <= hj.position
      ]_vars

\* a reorder of three holdings succeeded and moved the holding first added to
\* the last position
C24_Witness ==
    /\ resp.op = "reorder_portfolio" /\ resp.status = 200
    /\ Cardinality(FilterUser(holdings, resp.user)) = 3
    /\ {h.position : h \in FilterUser(holdings, resp.user)} = {0, 1, 2}
    /\ \E h \in FilterUser(holdings, resp.user) : h.symbol = "AAPL" /\ h.position = 2

\* C25: no step leaves two holdings with the same owner and symbol, and an
\* add for a symbol the owner already holds is answered with the client
\* error 400 and changes no stored row, whether or not a commit would have
\* succeeded.
C25_OneHoldingPerSymbol ==
    [][ /\ PrimaryKeyOK(holdings')
        /\ resp'.op = "add_to_portfolio" =>
              \A u \in Owners, h \in HoldingCreateInputs, ok \in BOOLEAN :
                  (FilterUserSymbol(holdings, u, h.symbol) /= {}
                      /\ add_to_portfolio(u, h, ok)) =>
                          /\ resp'.status = 400
                          /\ holdings' = holdings
      ]_vars

\* an add was rejected for an owner who holds two symbols
C25_Witness ==
    /\ resp.op = "add_to_portfolio" /\ resp.status = 400
    /\ resp.detail = "Holding already exists. Use PUT to update."
    /\ Cardinality(FilterUser(holdings, resp.user)) = 2
    /\ PrimaryKeyOK(holdings)

-----------------------------------------------------------------------------
(* Properties of get_portfolio, checked under SpecValuation *)

\* the sum of f[x] over the x in S
RECURSIVE SumOver(_, _)
SumOver(S, f) ==
    IF S = {} THEN 0
    ELSE LET x == CHOOSE y \in S : TRUE IN f[x] + SumOver(S \ {x}, f)

\* C6: a portfolio read over N stored holdings lists exactly these N
\* holdings by non-decreasing stored position; an entry whose quote fetch
\* fails has every derived numeric field null and the name "<symbol> (Data
\* Error)", every other entry is valued; totalValue and dayChange sum the
\* valued holdings only, and totalValue - totalGain is the sum of
\* shares x averageCost over all N.
C6_PartialFailureValuation ==
    [][ (resp'.op = "get_portfolio" /\ resp'.status = 200) =>
          LET rows == FilterUser(holdings, resp'.user)
              listed == resp'.body.holdings
              summary == resp'.body.summary
              fetched == [s \in Symbols |-> CachedGetStockInfo(cache, provider, s)]
              fetch(s) == fetched[s]
              valued == {h \in rows : fetch(h.symbol).kind = "return"}
              Value(h) == h.shares * fetch(h.symbol).value.price
              DayChange(h) == h.shares * fetch(h.symbol).value.change
              Cost(h) == h.shares * h.averageCost
          IN /\ Len(listed) = Cardinality(rows)
             /\ \A h \in rows : \E i \in 1..Len(listed) :
                    /\ listed[i].symbol = h.symbol
                    /\ listed[i].shares = h.shares
                    /\ listed[i].averageCost = h.averageCost
             /\ \A i, j \in 1..Len(listed) : \A a, b \in rows :
                    (i < j /\ a.symbol = listed[i].symbol /\ b.symbol = listed[j].symbol)
                        => a.position <= b.position
             /\ \A i \in 1..Len(listed) :
                    IF fetch(listed[i].symbol).kind = "return"
                    THEN /\ listed[i].value = Some(listed[i].shares
                                                    * fetch(listed[i].symbol).value.price)
                         /\ listed[i].currentPrice /= None
                    ELSE /\ listed[i].currentPrice = None /\ listed[i].change = None
                         /\ listed[i].changePercent = None /\ listed[i].value = None
                         /\ listed[i].gain = None /\ listed[i].gainPercent = None
                         /\ listed[i].name = listed[i].symbol \o " (Data Error)"
             /\ summary.totalValue = SumOver(valued, [h \in valued |-> Value(h)])
             /\ summary.dayChange = SumOver(valued, [h \in valued |-> DayChange(h)])
             /\ summary.totalValue - summary.totalGain
                    = SumOver(rows, [h \in rows |-> Cost(h)])
      ]_vars

\* three holdings were listed, one of them without a quote, two valued, and
\* the holding without a quote has a cost
C6_Witness ==
    /\ resp.op = "get_portfolio" /\ resp.status = 200
    /\ Len(resp.body.holdings) = 3
    /\ Cardinality({i \in 1..3 : resp.body.holdings[i].value = None}) = 1
    /\ \E i \in 1..3 : /\ resp.body.holdings[i].value = None
                       /\ resp.body.holdings[i].shares * resp.body.holdings[i].averageCost > 0

-----------------------------------------------------------------------------
(* Properties of get_stock_info, checked under SpecQuote *)

\* the provider answer the last direct call ran on; the call was not served
\* from the cache
Computed == ret.kind /= "none" /\ ~ret.hit
Asked == provider[ret.symbol]

\* C7: get_stock_info fails exactly when the history is empty and none of
\* currentPrice, regularMarketPrice and previousClose is present in the
\* metadata, and then it fails with the 404 HTTPException and nothing else.
C7_FailsOnlyWithoutData ==
    Computed =>
        /\ ret.kind = "raise" <=>
              /\ Asked.hist = <<>>
              /\ Asked.info.currentPrice = None
              /\ Asked.info.regularMarketPrice = None
              /\ Asked.info.previousClose = None
        /\ ret.kind = "raise" => (ret.exc = "HTTPException" /\ ret.status = 404)

\* the first of the three metadata prices that is present
FirstPresent(info) ==
    IF info.currentPrice /= None THEN info.currentPrice
    ELSE IF info.regularMarketPrice /= None THEN info.regularMarketPrice
    ELSE info.previousClose

\* C8: with an empty history, get_stock_info answers 404 only when none of
\* the three metadata prices is present, and a Quote it returns has as price
\* the first of currentPrice, regularMarketPrice, previousClose that is
\* present, and as previous close the previousClose field or, when that is
\* absent, the price.
C8_MetadataFallback ==
    (Computed /\ Asked.hist = <<>>) =>
        /\ ret.exc = "HTTPException" => FirstPresent(Asked.info) = None
        /\ ret.kind = "return" =>
              /\ Some(ret.value.price) = FirstPresent(Asked.info)
              /\ ret.previous_close =
                    IF Asked.info.previousClose /= None THEN Asked.info.previousClose
                    ELSE Some(ret.value.price)

\* C9: with a non-empty history, the price of a returned Quote is the last
\* close, the previous close is the first close when there are at least two
\* closes and the price otherwise, and change is last close - first close
\* (0 for a single close).
C9_HistoryPrices ==
    (Computed /\ ret.kind = "return" /\ Asked.hist /= <<>>) =>
        LET hist == Asked.hist
        IN /\ ret.value.price = hist[Len(hist)]
           /\ ret.previous_close = IF Len(hist) >= 2 THEN Some(hist[1])
                                   ELSE Some(ret.value.price)
           /\ ret.value.change = hist[Len(hist)] - hist[1]
           /\ Len(hist) = 1 => ret.value.change = 0

\* a Quote was computed from a history of two or more closes that moved
C9_Witness ==
    /\ Computed /\ ret.kind = "return"
    /\ Len(Asked.hist) >= 2
    /\ Asked.hist[1] /= Asked.hist[Len(Asked.hist)]
    /\ ret.value.change /= 0

\* C10: in every returned Quote, with p the previous close and c the price:
\* change = c - p; changePercent is the fraction (c - p) x 100 / p when
\* p /= 0 and is 0 when p = 0; no quotient ever has denominator 0.
C10_ChangePercent ==
    (Computed /\ ret.kind = "return") =>
        LET c == ret.value.price
            p == ret.previous_close[1]
            pct == ret.value.changePercent
        IN /\ ret.value.change = c - p
           /\ pct[2] /= 0
           /\ p /= 0 => pct[1] * p = (c - p) * 100 * pct[2]
           /\ p = 0 => pct[1] = 0

\* a Quote was computed whose previous close is 0 while its price is not
C10_Witness ==
    /\ Computed /\ ret.kind = "return"
    /\ ret.previous_close = Some(0)
    /\ ret.value.price /= 0

\* C22: in a returned Quote, a PRE session has the metadata's pre-market
\* price (absent when the metadata has none) and no post-market price; a POST
\* session has the close of the last minute-level bar as post-market price and
\* no pre-market price; every other session state, an absent one included,
\* has 0 for both.
C22_SessionPrices ==
    ret.kind = "return" =>
        LET d == provider[ret.symbol]
            market_state == d.info.marketState
            quote == ret.value
        IN /\ market_state = Some("PRE") =>
                /\ quote.preMarketPrice = d.info.preMarketPrice
                /\ quote.postMarketPrice = None
           /\ market_state = Some("POST") =>
                /\ d.bars /= <<>>
                /\ quote.postMarketPrice = Some(d.bars[Len(d.bars)])
                /\ quote.preMarketPrice = None
           /\ market_state \notin {Some("PRE"), Some("POST")} =>
                /\ quote.preMarketPrice = Some(0)
                /\ quote.postMarketPrice = Some(0)

\* a Quote was computed in a POST session with two minute-level bars
C22_Witness ==
    /\ Computed /\ ret.kind = "return"
    /\ provider[ret.symbol].info.marketState = Some("POST")
    /\ Len(provider[ret.symbol].bars) = 2
    /\ ret.value.postMarketPrice = Some(13)

-----------------------------------------------------------------------------
(* utils.calculate_sma_values *)

sma_periods == <<20, 50, 100, 150, 200>>

\* key = f"sma{period}"
SmaKey(period) == "sma" \o ToString(period)

\* sum(close_values[i:i+period]), with i counted from 1
RECURSIVE WindowSum(_, _, _)
WindowSum(close_values, i, period) ==
    IF period = 0 THEN 0
    ELSE close_values[i] + WindowSum(close_values, i + 1, period - 1)

\* SmaSeries padded with [None] * period: one null too many in front
SmaSeriesPaddedByPeriod(close_values, period) ==
    IF Len(close_values) >= period
    THEN [k \in 1..(Len(close_values) + 1) |->
            IF k <= period THEN None
            ELSE Some(Fraction(WindowSum(close_values, k - period, period), period))]
    ELSE [k \in 1..Len(close_values) |-> None]

\* the list stored under one key (utils.py:98-110): period - 1 nulls, then
\* window_sum / period for each window
SmaSeries(close_values, period) ==
    IF Len(close_values) >= period
    THEN [k \in 1..Len(close_values) |->
            IF k <= period - 1 THEN None
            ELSE Some(Fraction(WindowSum(close_values, k - period + 1, period), period))]
    ELSE [k \in 1..Len(close_values) |-> None]

calculate_sma_values(close_values) ==
    [key \in {SmaKey(sma_periods[j]) : j \in 1..Len(sma_periods)} |->
        LET period == sma_periods[CHOOSE j \in 1..Len(sma_periods) :
                                      SmaKey(sma_periods[j]) = key]
        IN SmaSeries(close_values, period)]

\* a direct call of calculate_sma_values on the series drawn at the start
calculate_sma_values_call ==
    /\ called.fn = "none"
    /\ called' = [fn |-> "calculate_sma_values", args |-> called.args,
                  outcome |-> calculate_sma_values(called.args)]
    /\ UNCHANGED <<holdings, pc, resp, provider, cache, ret, watchlist, history_call, news_feed, adding>>

-----------------------------------------------------------------------------
(* SpecSma: calculate_sma_values called on every close series of a bounded set *)

MaxCloses == 201    \* longest close series handed to calculate_sma_values

\* close series of every length up to MaxCloses: a curve that rises and
\* falls, and one that stays flat but for a spike every seventh bar
SmaInputs ==
    UNION {{[i \in 1..n |-> ((i * i) % 11) + 1],
            [i \in 1..n |-> IF i % 7 = 3 THEN 9 ELSE 2]} : n \in 0..MaxCloses}

InitSma ==
    /\ holdings = {}
    /\ pc = Idle
    /\ resp = NoResponse
    /\ provider = StoreProvider
    /\ cache = EmptyCache
    /\ ret = NoCall
    /\ watchlist = {}
    /\ history_call = None
    /\ news_feed = NoNews
    /\ \E close_values \in SmaInputs :
          called = [fn |-> "none", args |-> close_values, outcome |-> <<>>]
    /\ adding = NoAdds

NextSma == calculate_sma_values_call

SpecSma == InitSma /\ [][NextSma]_vars

-----------------------------------------------------------------------------
(* Properties of calculate_sma_values, checked under SpecSma *)

\* close_values[1] + ... + close_values[k]
RECURSIVE PrefixSum(_, _)
PrefixSum(close_values, k) ==
    IF k = 0 THEN 0 ELSE PrefixSum(close_values, k - 1) + close_values[k]

SmaWindows == {20, 50, 100, 150, 200}

\* C13: for a close series of length n and every window w of 20, 50, 100,
\* 150, 200, the list under "sma<w>" has length n; it is all null when n < w;
\* otherwise it is null at every index below w-1 and, at every index i from
\* w-1 on, the mean of the w closes at i-w+1..i (indices from 0).  An empty
\* series gives an empty list for every window.
C13_SmaValues ==
    called.fn = "calculate_sma_values" =>
        LET closes == called.args
            n == Len(closes)
        IN /\ DOMAIN called.outcome = {"sma20", "sma50", "sma100", "sma150", "sma200"}
           /\ \A w \in SmaWindows :
                LET series == called.outcome["sma" \o ToString(w)]
                IN /\ Len(series) = n
                   /\ n < w => \A k \in 1..n : series[k] = None
                   /\ n >= w =>
                        \A k \in 1..n :
                            IF k - 1 < w - 1 THEN series[k] = None
                            ELSE /\ series[k] /= None
                                 /\ series[k][1][2] /= 0
                                 /\ series[k][1][1] * w =
                                        (PrefixSum(closes, k) - PrefixSum(closes, k - w))
                                            * series[k][1][2]

\* the function was applied to a series long enough for the widest window,
\* whose closes are not all equal
C13_Witness ==
    /\ called.fn = "calculate_sma_values"
    /\ Len(called.args) > 200
    /\ called.args[1] /= called.args[2]
    /\ called.outcome["sma200"][Len(called.args)] /= None

-----------------------------------------------------------------------------
(* SpecAssetType: determine_asset_type called on every metadata map of a
   bounded set *)

\* a direct call of determine_asset_type on the metadata drawn at the start
determine_asset_type_call ==
    /\ called.fn = "none"
    /\ called' = [fn |-> "determine_asset_type", args |-> called.args,
                  outcome |-> determine_asset_type(called.args.symbol, called.args.info)]
    /\ UNCHANGED <<holdings, pc, resp, provider, cache, ret, watchlist, history_call, news_feed, adding>>

\* the quoteType entry of the metadata: no key, a null, and strings in
\* several letter cases
QuoteTypeInputs ==
    {None, Some(None)} \cup
    {Some(Some(t)) : t \in {<<>>, <<"E", "T", "F">>, <<"e", "t", "f">>, <<"E", "t", "f">>,
                            <<"E", "Q", "U", "I", "T", "Y">>, <<"O", "P", "T", "I", "O", "N">>,
                            <<"C", "R", "Y", "P", "T", "O", "C", "U", "R", "R", "E", "N", "C", "Y">>,
                            <<"c", "r", "y", "p", "t", "o", "C", "u", "r", "r", "e", "n", "c", "y">>}}

AssetTypeInputs ==
    {[symbol |-> s, info |-> Info(None, rmp, None, None, qt, ms, None, ln)] :
        s \in Symbols, rmp \in {None, Some(12)}, qt \in QuoteTypeInputs,
        ms \in {None, Some("REGULAR")}, ln \in {None, Some("Apple Inc.")}}

InitAssetType ==
    /\ holdings = {}
    /\ pc = Idle
    /\ resp = NoResponse
    /\ provider = StoreProvider
    /\ cache = EmptyCache
    /\ ret = NoCall
    /\ watchlist = {}
    /\ history_call = None
    /\ news_feed = NoNews
    /\ \E a \in AssetTypeInputs : called = [fn |-> "none", args |-> a, outcome |-> <<>>]
    /\ adding = NoAdds

NextAssetType == determine_asset_type_call

SpecAssetType == InitAssetType /\ [][NextAssetType]_vars

-----------------------------------------------------------------------------
(* Properties of determine_asset_type, checked under SpecAssetType *)

\* the text of the quote-type field, empty when the field is missing or null
QuoteTypeText(info) ==
    IF info.quoteType = None \/ info.quoteType[1] = None THEN <<>>
    ELSE info.quoteType[1][1]

\* C14: determine_asset_type never raises: for every metadata map, the
\* quote-type field missing or null included, it returns etf when the field
\* is "etf" in any letter case, crypto when it is "cryptocurrency" in any
\* letter case, and stock otherwise.
C14_AssetTypeTotal ==
    called.fn = "determine_asset_type" =>
        LET text == Lower(QuoteTypeText(called.args.info))
        IN /\ called.outcome.kind = "return"
           /\ called.outcome.value =
                IF text = <<"e", "t", "f">> THEN "etf"
                ELSE IF text = <<"c", "r", "y", "p", "t", "o", "c", "u", "r", "r", "e", "n", "c", "y">>
                     THEN "crypto"
                ELSE "stock"

-----------------------------------------------------------------------------
(* routes.get_history: the period reconciliation and the history lookup.
   A period is a sequence of characters, because it is parsed; a message is
   a sequence of tokens, words and numbers, because it is searched. *)

Word(w) == [word |-> w]
Num(n) == [num |-> n]

\* the keys of max_periods (routes.py:462-476)
SupportedIntervals ==
    {"1m", "2m", "5m", "15m", "30m", "60m", "90m", "1h", "1d", "5d", "1wk", "1mo", "3mo"}

\* max_periods[interval]
max_periods(interval) ==
    CASE interval = "1m" -> <<"7", "d">>
      [] interval \in {"2m", "5m", "15m", "30m", "90m"} -> <<"6", "0", "d">>
      [] interval \in {"60m", "1h"} -> <<"7", "3", "0", "d">>
      [] OTHER -> <<"m", "a", "x">>

\* period_values (routes.py:485-489): key and value, the value None for ytd and max
period_values ==
    {<<<<"1", "d">>, Some(1)>>, <<<<"5", "d">>, Some(5)>>, <<<<"7", "d">>, Some(7)>>,
     <<<<"6", "0", "d">>, Some(60)>>, <<<<"9", "0", "d">>, Some(90)>>,
     <<<<"1", "m", "o">>, Some(30)>>, <<<<"3", "m", "o">>, Some(90)>>,
     <<<<"6", "m", "o">>, Some(180)>>, <<<<"1", "y">>, Some(365)>>,
     <<<<"2", "y">>, Some(730)>>, <<<<"5", "y">>, Some(1825)>>,
     <<<<"1", "0", "y">>, Some(3650)>>, <<<<"y", "t", "d">>, None>>,
     <<<<"m", "a", "x">>, None>>}

Digits == {"0", "1", "2", "3", "4", "5", "6", "7", "8", "9"}

DigitValue(c) ==
    CASE c = "0" -> 0 [] c = "1" -> 1 [] c = "2" -> 2 [] c = "3" -> 3 [] c = "4" -> 4
      [] c = "5" -> 5 [] c = "6" -> 6 [] c = "7" -> 7 [] c = "8" -> 8 [] OTHER -> 9

RECURSIVE DigitsValue(_)
DigitsValue(ds) ==
    IF ds = <<>> THEN 0
    ELSE DigitsValue(SubSeq(ds, 1, Len(ds) - 1)) * 10 + DigitValue(ds[Len(ds)])

\* int(text): an optional sign and one or more decimal digits give the
\* number, anything else raises ValueError (None here)
PyInt(text) ==
    LET signed == text /= <<>> /\ text[1] \in {"+", "-"}
        digits == IF signed THEN Tail(text) ELSE text
    IN IF digits = <<>> \/ \E i \in 1..Len(digits) : digits[i] \notin Digits THEN None
       ELSE IF signed /\ text[1] = "-" THEN Some(0 - DigitsValue(digits))
       ELSE Some(DigitsValue(digits))

\* DaysOf without the table: only "<n>d" resolves
DaysOfSuffixOnly(period) ==
    IF period /= <<>> /\ period[Len(period)] = "d"
    THEN PyInt(SubSeq(period, 1, Len(period) - 1))
    ELSE None

\* the day count of a period string (routes.py:492-499 and 501-509)
DaysOf(period) ==
    IF \E e \in period_values : e[1] = period
    THEN (CHOOSE e \in period_values : e[1] = period)[2]
    ELSE IF period /= <<>> /\ period[Len(period)] = "d"
         THEN PyInt(SubSeq(period, 1, Len(period) - 1))
         ELSE None

\* Reconcile comparing with >= : a period at the cap counts as adjusted
ReconcileAtCap(period, interval) ==
    LET kept == [period |-> period, period_adjusted |-> FALSE]
    IN IF interval \in SupportedIntervals /\ max_periods(interval) /= <<"m", "a", "x">>
       THEN LET requested_days == DaysOf(period)
                max_period == max_periods(interval)
                max_allowed_days == DaysOf(max_period)
                capped == [period |-> max_period, period_adjusted |-> TRUE]
            IN IF requested_days /= None /\ max_allowed_days /= None
               THEN IF requested_days[1] >= max_allowed_days[1] THEN capped ELSE kept
               ELSE IF /\ period \notin {<<"1", "d">>, <<"5", "d">>, <<"7", "d">>,
                                         <<"6", "0", "d">>}
                       /\ interval \in {"1m", "2m", "5m", "15m", "30m", "90m"}
                    THEN capped
               ELSE kept
       ELSE kept

\* the period adjustment (routes.py:479-521)
Reconcile(period, interval) ==
    LET kept == [period |-> period, period_adjusted |-> FALSE]
    IN IF interval \in SupportedIntervals /\ max_periods(interval) /= <<"m", "a", "x">>
       THEN LET requested_days == DaysOf(period)
                max_period == max_periods(interval)
                max_allowed_days == DaysOf(max_period)
                capped == [period |-> max_period, period_adjusted |-> TRUE]
            IN IF requested_days /= None /\ max_allowed_days /= None
               THEN IF requested_days[1] > max_allowed_days[1] THEN capped ELSE kept
               ELSE IF /\ period \notin {<<"1", "d">>, <<"5", "d">>, <<"7", "d">>,
                                         <<"6", "0", "d">>}
                       /\ interval \in {"1m", "2m", "5m", "15m", "30m", "90m"}
                    THEN capped
               ELSE kept
       ELSE kept

\* `phrase in message` on token sequences
HasPhrase(message, phrase) ==
    \E i \in 0..(Len(message) - Len(phrase)) :
        \A j \in 1..Len(phrase) : message[i + j] = phrase[j]

\* re.search(r"must be within the last (\d+) days", error_msg): the positions
\* at which the pattern matches
TimeframeMatches(message) ==
    {k \in 1..(Len(message) - 3) :
        /\ message[k] = Word("must be within")
        /\ message[k + 1] = Word("the last")
        /\ DOMAIN message[k + 2] = {"num"}
        /\ message[k + 3] = Word("days")}

\* the detail of an error answer after the provider call raised
\* (routes.py:576-590)
HistoryErrorResponse(symbol, interval, error_msg) ==
    IF /\ HasPhrase(error_msg, <<Word("data not available for startTime")>>)
       /\ HasPhrase(error_msg, <<Word("The requested range"), Word("must be within")>>)
    THEN IF TimeframeMatches(error_msg) /= {}
         THEN LET k == CHOOSE m \in TimeframeMatches(error_msg) :
                            \A n \in TimeframeMatches(error_msg) : m <= n
                  max_days == error_msg[k + 2].num
              IN Response("get_history", "", 400,
                    <<Word("The requested"), Word(interval),
                      Word("interval data is only available for the last"), Num(max_days),
                      Word("days. Try a larger interval (like '1d') for longer periods.")>>,
                    NoBody)
         ELSE Response("get_history", "", 400,
                    <<Word("The requested data is not available for the specified period and interval. Try a larger interval (like '1d') for longer periods.")>>,
                    NoBody)
    ELSE Response("get_history", "", 500,
            <<Word("Failed to fetch historical data for"), Word(symbol), Word(":")>>
                \o error_msg,
            NoBody)

\* calculate_sma_param and calculate_sma_param.lower() == 'true'
SmaRequested(calculate_sma_param) ==
    /\ calculate_sma_param /= None
    /\ calculate_sma_param[1] /= <<>>
    /\ Lower(calculate_sma_param[1]) = <<"t", "r", "u", "e">>

\* the answer built from a non-empty history (routes.py:534-572); a row keeps
\* its close, the date columns are left out
HistoryResponseData(symbol, original_period, rec, interval, closes, calculate_sma_param) ==
    LET sma_data == IF SmaRequested(calculate_sma_param) /\ Len(closes) > 0
                    THEN Some(calculate_sma_values(closes)) ELSE None
    IN [history |-> [i \in 1..Len(closes) |-> [Close |-> closes[i]]],
        symbol |-> symbol,
        period |-> rec.period,
        interval |-> interval,
        adjusted |-> IF rec.period_adjusted THEN Some(TRUE) ELSE None,
        requestedPeriod |-> IF rec.period_adjusted THEN Some(original_period) ELSE None,
        actualPeriod |-> IF rec.period_adjusted THEN Some(rec.period) ELSE None,
        message |-> IF rec.period_adjusted
                    THEN Some(<<Word("Adjusted period from"), Word(original_period),
                                Word("to"), Word(rec.period), Word("due to"),
                                Word(interval), Word("interval limitations")>>)
                    ELSE None,
        sma |-> sma_data]

\* GET /api/history/{symbol}; answer is what stock.history(period, interval)
\* does this time: it returns closes, or it raises with a message
get_history(symbol, period, interval, calculate_sma_param, answer) ==
    LET rec == Reconcile(period, interval)
    IN /\ history_call' = Some([request |-> [symbol |-> symbol, period |-> period,
                                              interval |-> interval],
                                symbol |-> symbol, period |-> rec.period,
                                interval |-> interval])
       /\ resp' =
            IF answer.kind = "raise"
            THEN HistoryErrorResponse(symbol, interval, answer.message)
            ELSE IF answer.closes = <<>>
                 THEN Response("get_history", "", 404,
                               <<Word("No historical data found for"), Word(symbol)>>, NoBody)
            ELSE Response("get_history", "", 200, <<>>,
                          HistoryResponseData(symbol, period, rec, interval, answer.closes,
                                              calculate_sma_param))
       /\ UNCHANGED <<holdings, pc, provider, cache, ret, watchlist, called, news_feed, adding>>

-----------------------------------------------------------------------------
(* SpecHistory: history lookups over bounded periods, intervals and provider
   answers *)

MaxDays == 731      \* largest day count written as "<n>d" in a request

IntervalInputs == SupportedIntervals \cup {"7m"}

\* the decimal digits of a natural number
RECURSIVE DigitsOf(_)
DigitsOf(n) ==
    LET d == <<"0", "1", "2", "3", "4", "5", "6", "7", "8", "9">>[(n % 10) + 1]
    IN IF n < 10 THEN <<d>> ELSE Append(DigitsOf(n \div 10), d)

PeriodInputs ==
    {<<"1", "d">>, <<"3", "m", "o">>, <<"2", "y">>, <<"5", "y">>, <<"y", "t", "d">>,
     <<"m", "a", "x">>, <<"3", "y">>, <<"x", "d">>}
    \cup {Append(DigitsOf(n), "d") : n \in {7, 8, 30, 60, 61, MaxDays}}

RangeMessage ==
    <<Word("AAPL: 1m"), Word("data not available for startTime"),
      Word("=1 and endTime=2."), Word("The requested range"), Word("must be within"),
      Word("the last"), Num(8), Word("days")>>

OtherMessage == <<Word("Expecting value: line 1 column 1 (char 0)")>>

\* what the provider does, paired with the calculate_sma query parameter
HistoryCases ==
    {<<[kind |-> "raise", message |-> m, closes |-> <<>>], None>> :
        m \in {RangeMessage, OtherMessage}}
    \cup {<<[kind |-> "return", message |-> <<>>, closes |-> <<>>], None>>}
    \cup {<<[kind |-> "return", message |-> <<>>, closes |-> <<10, 12>>], c>> :
            c \in {None, Some(<<"T", "r", "u", "e">>)}}

NextHistory ==
    \E s \in QuoteSymbols, p \in PeriodInputs, i \in IntervalInputs, c \in HistoryCases :
        get_history(s, p, i, c[2], c[1])

SpecHistory == Init /\ [][NextHistory]_vars

-----------------------------------------------------------------------------
(* Properties of get_history, checked under SpecHistory *)

\* the last history lookup
Lookup == history_call[1]

\* the day count of a period by the unit table: <n>d is n days, <n>mo is
\* 30 n days, <n>y is 365 n days
UnitDays(period) ==
    LET n == Len(period)
    IN IF n >= 2 /\ period[n] = "d" THEN DigitsValue(SubSeq(period, 1, n - 1))
       ELSE IF n >= 3 /\ period[n - 1] = "m" /\ period[n] = "o"
            THEN 30 * DigitsValue(SubSeq(period, 1, n - 2))
       ELSE 365 * DigitsValue(SubSeq(period, 1, n - 1))

\* the periods whose day count resolves: the periods of the table that
\* carry a number, and "<n>d" for a number n
Resolves(period) ==
    \/ period \in {<<"1", "d">>, <<"5", "d">>, <<"7", "d">>, <<"6", "0", "d">>,
                   <<"9", "0", "d">>, <<"1", "m", "o">>, <<"3", "m", "o">>,
                   <<"6", "m", "o">>, <<"1", "y">>, <<"2", "y">>, <<"5", "y">>,
                   <<"1", "0", "y">>}
    \/ /\ Len(period) >= 2 /\ period[Len(period)] = "d"
       /\ \A i \in 1..(Len(period) - 1) : period[i] \in Digits

\* the cap of an interval in days, 0 for an interval without a cap
CapDays(interval) ==
    CASE interval = "1m" -> 7
      [] interval \in {"2m", "5m", "15m", "30m", "90m"} -> 60
      [] interval \in {"60m", "1h"} -> 730
      [] OTHER -> 0

C12_UnsupportedIntervalRejected ==
    history_call /= None =>
        /\ Lookup.interval \in SupportedIntervals
        /\ Lookup.request.interval \notin SupportedIntervals => resp.status = 400

-----------------------------------------------------------------------------
(* routes.get_stock_data: the single-symbol quote lookup *)

\* StockResponse(symbol=stock_data["symbol"], ...) (routes.py:306-318)
StockResponse(stock_data) ==
    [symbol |-> stock_data.symbol, name |-> stock_data.name, price |-> stock_data.price,
     change |-> stock_data.change, changePercent |-> stock_data.changePercent,
     preMarketPrice |-> stock_data.preMarketPrice,
     postMarketPrice |-> stock_data.postMarketPrice,
     marketState |-> stock_data.marketState, marketCap |-> stock_data.marketCap,
     volume |-> stock_data.volume, type |-> stock_data.type]

\* try: ... except Exception: raise HTTPException(500) (routes.py:304-321);
\* the HTTPException raised by get_stock_info is an Exception too
GetStockDataResponse(outcome) ==
    IF outcome.kind = "return"
    THEN Response("get_stock_data", "", 200, "", StockResponse(outcome.value))
    ELSE Response("get_stock_data", "", 500, "Error fetching stock data.", NoBody)

get_stock_data(symbol) ==
    LET outcome == CachedGetStockInfo(cache, provider, symbol)
    IN /\ resp' = GetStockDataResponse(outcome)
       /\ cache' = CacheAfter(cache, symbol, outcome)
       /\ UNCHANGED <<holdings, pc, provider, ret, watchlist, history_call, called, news_feed, adding>>

\* the market moves: the provider has other data for a symbol from now on
provider_update(symbol, d) ==
    /\ provider[symbol] /= d
    /\ provider' = [provider EXCEPT ![symbol] = d]
    /\ UNCHANGED <<holdings, pc, resp, cache, ret, watchlist, history_call, called, news_feed, adding>>

-----------------------------------------------------------------------------
(* SpecLookup: quote lookups while the provider's data changes *)

LookupSymbols == {"AAPL", "MSFT"}

\* a two-day history, the same a day later, metadata with a null quoteType,
\* and nothing at all
LookupData ==
    {ProviderData(Info(Some(12), Some(12), Some(10), None,
                       Some(Some(<<"E", "Q", "U", "I", "T", "Y">>)), Some("REGULAR"),
                       Some("Apple Inc."), None),
                  <<10, 12>>, <<>>),
     ProviderData(Info(Some(15), Some(15), Some(12), None,
                       Some(Some(<<"E", "Q", "U", "I", "T", "Y">>)), Some("REGULAR"),
                       Some("Apple Inc."), None),
                  <<12, 15>>, <<>>),
     ProviderData(Info(None, Some(9), None, None, Some(None), None, None, None),
                  <<9>>, <<>>),
     ProviderData(EmptyInfo, <<>>, <<>>)}

InitLookup ==
    /\ holdings = {}
    /\ pc = Idle
    /\ resp = NoResponse
    /\ provider \in [Symbols -> LookupData]
    /\ \A s \in Symbols \ LookupSymbols : provider[s] = ProviderData(EmptyInfo, <<>>, <<>>)
    /\ cache = EmptyCache
    /\ ret = NoCall
    /\ watchlist = {}
    /\ history_call = None
    /\ news_feed = NoNews
    /\ called = NoPureCall
    /\ adding = NoAdds

NextLookup ==
    \/ \E s \in LookupSymbols : get_stock_data(s)
    \/ \E s \in LookupSymbols, d \in LookupData : provider_update(s, d)

SpecLookup == InitLookup /\ [][NextLookup]_vars

-----------------------------------------------------------------------------
(* Properties of the quote lookup, checked under SpecLookup *)

\* C15: a single-symbol lookup for which get_stock_info fails with its 404
\* (no data for the symbol) answers the caller with that 404, not with a
\* server error.
C15_LookupNotFound ==
    [][ \A s \in LookupSymbols :
            (get_stock_data(s) /\ CachedGetStockInfo(cache, provider, s).status = 404)
                => resp'.status = 404
      ]_vars

\* C16: the Quote of a successful lookup is computed from the provider's data
\* at the time of that lookup, whatever was computed for earlier lookups of
\* the symbol.
C16_QuoteRecomputed ==
    [][ \A s \in LookupSymbols :
            (get_stock_data(s) /\ resp'.status = 200)
                => /\ GetStockInfoBody(s, provider[s]).kind = "return"
                   /\ resp'.body = StockResponse(GetStockInfoBody(s, provider[s]).value)
      ]_vars

-----------------------------------------------------------------------------
(* SpecUnvalidated: the write handlers on every number a request can carry.
   HoldingCreate declares shares and averageCost as plain floats, and
   update_holding takes them as plain floats of the body. *)

AnyHoldingValues == HoldingValues \cup {<<0, 3>>, <<0 - 1, 3>>, <<2, 0 - 1>>}

UnvalidatedSymbols == {"AAPL", "MSFT"}

AnyHoldingCreateInputs ==
    {[symbol |-> s, shares |-> v[1], averageCost |-> v[2]] :
        s \in UnvalidatedSymbols, v \in AnyHoldingValues}

\* the empty list and the lists of one holding
AnyUploadInputs == {<<>>} \cup {<<h>> : h \in AnyHoldingCreateInputs}

NextUnvalidated ==
    \E u \in Owners :
        \/ \E h \in AnyHoldingCreateInputs, ok \in BOOLEAN : add_to_portfolio(u, h, ok)
        \/ \E s \in UnvalidatedSymbols, v \in AnyHoldingValues, ok \in BOOLEAN :
              update_holding(u, s, v[1], v[2], ok)
        \/ \E hs \in AnyUploadInputs, ok \in BOOLEAN : upload_portfolio(u, hs, ok)

SpecUnvalidated == Init /\ [][NextUnvalidated]_vars

\* C17: every stored holding has shares > 0 and averageCost >= 0, whatever
\* add_to_portfolio, update_holding and upload_portfolio requests came
\* before: a request with shares <= 0 or a negative average cost stores nothing.
C17_SharesPositive ==
    \A h \in holdings : h.shares > 0 /\ h.averageCost >= 0

-----------------------------------------------------------------------------
(* SpecSummary: get_portfolio over the tables the write handlers can leave,
   holdings with shares <= 0 or a negative cost included *)

\* up to one row per symbol, on the positions an upload gives them
SummaryTables ==
    LET order == <<"AAPL", "MSFT", "SPY">>
        rows(u) == {HoldingDB(u, order[i], v[1], v[2], i - 1) :
                        i \in 1..3, v \in AnyHoldingValues}
    IN UNION {{t \in SUBSET rows(u) : PrimaryKeyOK(t) /\ DensePositions(t, u)} : u \in Owners}

InitSummary ==
    /\ holdings \in SummaryTables
    /\ pc = Idle
    /\ resp = NoResponse
    /\ provider \in [Symbols -> ValuationData]
    /\ cache = EmptyCache
    /\ ret = NoCall
    /\ watchlist = {}
    /\ history_call = None
    /\ news_feed = NoNews
    /\ called = NoPureCall
    /\ adding = NoAdds

NextSummary == \E u \in Owners, ok \in BOOLEAN : get_portfolio(u, ok)

SpecSummary == InitSummary /\ [][NextSummary]_vars

\* C18: in the summary of a portfolio read, totalGainPercent is
\* totalGain x 100 / cost basis when the cost basis is not 0, of either sign,
\* and 0 when it is 0; dayChangePercent is dayChange x 100 / the sum of the
\* day-start values when that sum is not 0, of either sign, and 0 when it is
\* 0; the day-start value of a holding is its value less its day change, and
\* only the holdings with a quote enter dayChange and the sum.
C18_SummaryPercents ==
    (resp.op = "get_portfolio" /\ resp.status = 200) =>
        LET rows == FilterUser(holdings, resp.user)
            quote == [s \in Symbols |-> GetStockInfoBody(s, provider[s])]
            valued == {h \in rows : quote[h.symbol].kind = "return"}
            cost == SumOver(rows, [h \in rows |-> h.shares * h.averageCost])
            value == SumOver(valued, [h \in valued |-> h.shares * quote[h.symbol].value.price])
            day == SumOver(valued, [h \in valued |-> h.shares * quote[h.symbol].value.change])
            start == SumOver(valued, [h \in valued |->
                        h.shares * quote[h.symbol].value.price
                            - h.shares * quote[h.symbol].value.change])
            summary == resp.body.summary
        IN /\ summary.totalGainPercent[2] /= 0
           /\ cost /= 0 => summary.totalGainPercent[1] * cost
                                = (value - cost) * 100 * summary.totalGainPercent[2]
           /\ cost = 0 => summary.totalGainPercent[1] = 0
           /\ summary.dayChange = day
           /\ summary.dayChangePercent[2] /= 0
           /\ start /= 0 => summary.dayChangePercent[1] * start
                                = day * 100 * summary.dayChangePercent[2]
           /\ start = 0 => summary.dayChangePercent[1] = 0

-----------------------------------------------------------------------------
(* routes.py: the watchlist table and its handlers.  A symbol of a request
   is a sequence of characters, because it is tested and upper-cased; a
   stored symbol is a string. *)

WatchlistDB(u, s) == [user_id |-> u, symbol |-> s]

UpperChar(c) ==
    CASE c = "a" -> "A" [] c = "p" -> "P" [] c = "l" -> "L" [] c = "m" -> "M"
      [] c = "s" -> "S" [] c = "f" -> "F" [] c = "t" -> "T" [] c = "y" -> "Y"
      [] c = "b" -> "B" [] c = "r" -> "R" [] c = "k" -> "K"
      [] OTHER -> c

\* Upper converting the first character only, as str.capitalize() begins
UpperFirstOnly(str) == [i \in 1..Len(str) |-> IF i = 1 THEN UpperChar(str[i]) ELSE str[i]]

\* str.upper()
Upper(str) == [i \in 1..Len(str) |-> UpperChar(str[i])]

AlnumChars ==
    {"a", "p", "l", "m", "s", "f", "t", "y", "b", "r", "k",
     "A", "P", "L", "M", "S", "F", "T", "Y", "B", "R", "K"} \cup Digits

\* str.isalnum(): at least one character and all of them letters or digits
IsAlnum(str) == str /= <<>> /\ \A i \in 1..Len(str) : str[i] \in AlnumChars

\* the string made of the characters
RECURSIVE Str(_)
Str(chars) == IF chars = <<>> THEN "" ELSE chars[1] \o Str(Tail(chars))

\* db.query(WatchlistDB).filter(user_id == u, symbol == s).first(): the set
\* holding the row, or {}
FilterWatch(db, u, s) == {w \in db : w.user_id = u /\ w.symbol = s}

add_to_watchlist(u, symbol, commit_ok) ==
    /\ IF ~IsAlnum(symbol)
       THEN /\ resp' = Response("add_to_watchlist", u, 400, "Invalid symbol format", NoBody)
            /\ UNCHANGED watchlist
       ELSE LET symbol_upper == Str(Upper(symbol))
            IN IF FilterWatch(watchlist, u, symbol_upper) /= {}
               THEN /\ resp' = Response("add_to_watchlist", u, 200, "",
                            [message |-> symbol_upper \o " is already in watchlist"])
                    /\ UNCHANGED watchlist
               ELSE IF commit_ok
               THEN /\ watchlist' = watchlist \cup {WatchlistDB(u, symbol_upper)}
                    /\ resp' = Response("add_to_watchlist", u, 200, "",
                            [message |-> "Symbol added to watchlist"])
               ELSE /\ UNCHANGED watchlist
                    /\ resp' = Response("add_to_watchlist", u, 500,
                                        "Database error adding to watchlist.", NoBody)
    /\ UNCHANGED <<holdings, pc, provider, cache, ret, history_call, called, news_feed, adding>>

remove_from_watchlist(u, symbol, commit_ok) ==
    /\ LET symbol_upper == Str(Upper(symbol))
       IN IF FilterWatch(watchlist, u, symbol_upper) = {}
          THEN /\ resp' = Response("remove_from_watchlist", u, 200, "",
                        [message |-> symbol_upper \o " not found in watchlist"])
               /\ UNCHANGED watchlist
          ELSE IF commit_ok
          THEN /\ watchlist' = watchlist \ FilterWatch(watchlist, u, symbol_upper)
               /\ resp' = Response("remove_from_watchlist", u, 200, "",
                        [message |-> symbol_upper \o " removed from watchlist"])
          ELSE /\ UNCHANGED watchlist
               /\ resp' = Response("remove_from_watchlist", u, 500,
                                   "Database error removing from watchlist.", NoBody)
    /\ UNCHANGED <<holdings, pc, provider, cache, ret, history_call, called, news_feed, adding>>

\* the item of a symbol whose quote was obtained (routes.py:285-295)
WatchlistItem(stock_data) ==
    [symbol |-> stock_data.symbol, name |-> Some(stock_data.name),
     price |-> Some(stock_data.price), change |-> Some(stock_data.change),
     changePercent |-> Some(stock_data.changePercent),
     preMarketPrice |-> stock_data.preMarketPrice,
     marketState |-> stock_data.marketState]

\* WatchlistErrorItem with the name the portfolio gives a failed holding
WatchlistErrorItemNamed(symbol) ==
    [symbol |-> symbol, name |-> Some(symbol \o " (Data Error)"), price |-> None,
     change |-> None, changePercent |-> None, preMarketPrice |-> None,
     marketState |-> None]

\* WatchlistItemResponse(symbol=symbol) (routes.py:298)
WatchlistErrorItem(symbol) ==
    [symbol |-> symbol, name |-> None, price |-> None, change |-> None,
     changePercent |-> None, preMarketPrice |-> None, marketState |-> None]

\* for symbol in watchlist_symbols: try get_stock_info ... except Exception
\* (routes.py:282-298); the cache fills as the loop goes
RECURSIVE WatchlistLoop(_, _, _, _, _)
WatchlistLoop(watchlist_symbols, i, c, prov, watchlist_details) ==
    IF i > Len(watchlist_symbols) THEN [entries |-> watchlist_details, cache |-> c]
    ELSE LET symbol == watchlist_symbols[i]
             outcome == CachedGetStockInfo(c, prov, symbol)
             item == IF outcome.kind = "return" THEN WatchlistItem(outcome.value)
                     ELSE WatchlistErrorItem(symbol)
         IN WatchlistLoop(watchlist_symbols, i + 1, CacheAfter(c, symbol, outcome), prov,
                          Append(watchlist_details, item))

\* .all() without order_by: the symbols come in an order the database chooses
AnyOrder(S) ==
    {q \in [1..Cardinality(S) -> S] : \A i, j \in 1..Cardinality(S) : i /= j => q[i] /= q[j]}

get_watchlist_details(u, query_ok) ==
    /\ UNCHANGED <<holdings, pc, provider, ret, watchlist, history_call, called, news_feed, adding>>
    /\ IF ~query_ok
       THEN /\ resp' = Response("get_watchlist_details", u, 500,
                                "Database error fetching watchlist.", NoBody)
            /\ UNCHANGED cache
       ELSE \E watchlist_symbols \in AnyOrder({w.symbol : w \in {x \in watchlist : x.user_id = u}}) :
              LET loop == WatchlistLoop(watchlist_symbols, 1, cache, provider, <<>>)
              IN /\ cache' = loop.cache
                 /\ resp' = Response("get_watchlist_details", u, 200, "", loop.entries)

-----------------------------------------------------------------------------
(* SpecWatchlist: the watchlist handlers over every provider answer of the
   valuation set *)

WatchSymbolInputs ==
    {<<"A", "A", "P", "L">>, <<"a", "a", "p", "l">>, <<"M", "s", "f", "t">>,
     <<"S", "P", "Y">>, <<"B", "R", "K", ".", "B">>}

InitWatchlist ==
    /\ holdings = {}
    /\ pc = Idle
    /\ resp = NoResponse
    /\ provider \in [Symbols -> ValuationData]
    /\ cache = EmptyCache
    /\ ret = NoCall
    /\ watchlist = {}
    /\ history_call = None
    /\ news_feed = NoNews
    /\ called = NoPureCall
    /\ adding = NoAdds

NextWatchlist ==
    \E u \in Owners :
        \/ \E s \in WatchSymbolInputs, ok \in BOOLEAN : add_to_watchlist(u, s, ok)
        \/ \E s \in WatchSymbolInputs, ok \in BOOLEAN : remove_from_watchlist(u, s, ok)
        \/ \E ok \in BOOLEAN : get_watchlist_details(u, ok)

SpecWatchlist == InitWatchlist /\ [][NextWatchlist]_vars

\* C19: a watchlist read that reached the table answers 200 with exactly one
\* entry per stored symbol of the owner; the entry of a symbol whose quote
\* fetch fails carries the symbol and null in every other field, and the
\* entry of every other symbol carries that symbol's own quote.
C19_WatchlistPartialFailure ==
    resp.op = "get_watchlist_details" =>
        \/ resp.status = 500 /\ resp.detail = "Database error fetching watchlist."
        \/ /\ resp.status = 200
           /\ LET stored == {w.symbol : w \in {x \in watchlist : x.user_id = resp.user}}
                  listed == resp.body
              IN /\ Len(listed) = Cardinality(stored)
                 /\ {listed[i].symbol : i \in 1..Len(listed)} = stored
                 /\ \A i \in 1..Len(listed) :
                        LET quote == GetStockInfoBody(listed[i].symbol,
                                                      provider[listed[i].symbol])
                        IN IF quote.kind = "raise"
                           THEN /\ listed[i].name = None /\ listed[i].price = None
                                /\ listed[i].change = None
                                /\ listed[i].changePercent = None
                                /\ listed[i].preMarketPrice = None
                                /\ listed[i].marketState = None
                           ELSE /\ listed[i].price = Some(quote.value.price)
                                /\ listed[i].change = Some(quote.value.change)
                                /\ listed[i].changePercent = Some(quote.value.changePercent)
                                /\ listed[i].name = Some(quote.value.name)

\* three symbols were listed, one of them without a quote and two with one
C19_Witness ==
    /\ resp.op = "get_watchlist_details" /\ resp.status = 200
    /\ Len(resp.body) = 3
    /\ Cardinality({i \in 1..3 : resp.body[i].price = None}) = 1
    /\ Cardinality({i \in 1..3 : resp.body[i].price /= None}) = 2

-----------------------------------------------------------------------------
(* routes.get_stock_news *)

\* the content dictionary of a news item; other tells whether it has keys
\* besides the five that are read
Content(title, canonicalUrl, clickThroughUrl, prov, pubDate, other) ==
    [title |-> title, canonicalUrl |-> canonicalUrl, clickThroughUrl |-> clickThroughUrl,
     provider |-> prov, pubDate |-> pubDate, other |-> other]

\* `not content`: the key is missing, or the dictionary is empty
ContentFalsy(content) ==
    \/ content = None
    \/ /\ content[1].title = None /\ content[1].canonicalUrl = None
       /\ content[1].clickThroughUrl = None /\ content[1].provider = None
       /\ content[1].pubDate = None /\ ~content[1].other

\* pd.to_datetime(text, errors='coerce') followed by isoformat(); a text
\* that is no date gives NaT (None here)
ToDatetimeIso(text) ==
    CASE text = "2025-04-01T12:00:00Z" -> Some("2025-04-01T12:00:00+00:00")
      [] OTHER -> None

\* the articles one news item adds (routes.py:352-389): none when the item
\* has no content, one otherwise
NewsArticlesOf(item) ==
    IF ContentFalsy(item.content) THEN <<>>
    ELSE LET content == item.content[1]
             link_obj == IF content.canonicalUrl /= None THEN content.canonicalUrl
                         ELSE content.clickThroughUrl
             link == IF link_obj /= None THEN link_obj[1].url ELSE None
             source == IF content.provider /= None THEN content.provider[1].displayName
                       ELSE None
             published_iso == IF TruthyStr(content.pubDate)
                              THEN ToDatetimeIso(content.pubDate[1]) ELSE None
         IN <<[title |-> OrStr(content.title, Some("No title available"))[1],
               link |-> OrStr(link, Some("#"))[1],
               source |-> OrStr(source, Some("Unknown source"))[1],
               published |-> OrStr(published_iso, Some(""))[1]]>>

\* for item in news: ... articles.append(...)
RECURSIVE NewsLoop(_, _)
NewsLoop(news, i) ==
    IF i > Len(news) THEN <<>> ELSE NewsArticlesOf(news[i]) \o NewsLoop(news, i + 1)

\* GET /api/news/{symbol}: an error of stock.news and an empty feed both
\* give the empty list
get_stock_news(symbol) ==
    /\ resp' = Response("get_stock_news", "", 200, "",
                        IF news_feed.kind = "raise" THEN <<>>
                        ELSE NewsLoop(news_feed.news, 1))
    /\ UNCHANGED <<holdings, pc, provider, cache, ret, watchlist, history_call, called,
                   news_feed, adding>>

-----------------------------------------------------------------------------
(* SpecNews: the news lookup on every feed of a bounded set *)

MaxNews == 2        \* most items in a news feed

UrlInputs ==
    {<<None, None>>, <<Some([url |-> Some("https://a.example/1")]), None>>,
     <<None, Some([url |-> Some("https://b.example/2")])>>}

\* items with every subset of title, link, source and date absent, items
\* with a URL or provider object that lacks its field, an item with a text
\* that is no date, an item with an empty content and one without content
NewsItemInputs ==
    {[content |-> Some(Content(t, u[1], u[2], p, d, TRUE))] :
        t \in {None, Some("Apple beats estimates")}, u \in UrlInputs,
        p \in {None, Some([displayName |-> Some("Reuters")])},
        d \in {None, Some("2025-04-01T12:00:00Z")}}
    \cup {[content |-> Some(Content(None, Some([url |-> None]), None,
                                    Some([displayName |-> None]), Some("soon"), TRUE))],
          [content |-> Some(Content(None, None, None, None, None, FALSE))],
          [content |-> None]}

NewsFeedInputs ==
    {[kind |-> "raise", news |-> <<>>]}
    \cup {[kind |-> "return", news |-> n] : n \in SeqsUpTo(NewsItemInputs, MaxNews)}

InitNews ==
    /\ holdings = {}
    /\ pc = Idle
    /\ resp = NoResponse
    /\ provider = StoreProvider
    /\ cache = EmptyCache
    /\ ret = NoCall
    /\ watchlist = {}
    /\ history_call = None
    /\ called = NoPureCall
    /\ adding = NoAdds
    /\ news_feed \in NewsFeedInputs

NextNews == \E s \in QuoteSymbols : get_stock_news(s)

SpecNews == InitNews /\ [][NextNews]_vars

\* the field of a news item as the caller sees it, None when it is absent
ItemTitle(item) == IF item.content = None THEN None ELSE item.content[1].title

ItemLink(item) ==
    IF item.content = None THEN None
    ELSE IF item.content[1].canonicalUrl /= None THEN item.content[1].canonicalUrl[1].url
    ELSE IF item.content[1].clickThroughUrl /= None
         THEN item.content[1].clickThroughUrl[1].url
    ELSE None

ItemSource(item) ==
    IF item.content = None \/ item.content[1].provider = None THEN None
    ELSE item.content[1].provider[1].displayName

ItemDate(item) == IF item.content = None THEN None ELSE item.content[1].pubDate

\* C20: the news lookup always answers 200, and for a feed the provider
\* returns the answer has one article per item, in order, in which an absent
\* title is "No title available", an absent link is "#", an absent source is
\* "Unknown source" and an absent date is the empty string, whatever subset
\* of the four is absent, all four included; a title, link or source that is
\* present is passed on.
C20_NewsFallbacks ==
    resp.op = "get_stock_news" =>
        /\ resp.status = 200
        /\ news_feed.kind = "return" =>
             LET news == news_feed.news
                 articles == resp.body
             IN /\ Len(articles) = Len(news)
                /\ \A i \in 1..Len(news) :
                     /\ articles[i].title =
                            IF ItemTitle(news[i]) = None THEN "No title available"
                            ELSE ItemTitle(news[i])[1]
                     /\ articles[i].link =
                            IF ItemLink(news[i]) = None THEN "#" ELSE ItemLink(news[i])[1]
                     /\ articles[i].source =
                            IF ItemSource(news[i]) = None THEN "Unknown source"
                            ELSE ItemSource(news[i])[1]
                     /\ ItemDate(news[i]) = None => articles[i].published = ""

-----------------------------------------------------------------------------
(* Properties of the error answers of get_history, checked under SpecHistory *)

\* the messages the provider call raises with
ProviderMessages == {c[1].message : c \in {d \in HistoryCases : d[1].kind = "raise"}}

\* the details the handler words by itself for a failed history lookup, one
\* set per kind of failure
HistoryErrorDetails ==
    {<<Word("No historical data found for"), Word(s)>> : s \in QuoteSymbols}
    \cup {<<Word("The requested data is not available for the specified period and interval. Try a larger interval (like '1d') for longer periods.")>>}
    \cup {<<Word("The requested"), Word(i),
            Word("interval data is only available for the last"), Num(n),
            Word("days. Try a larger interval (like '1d') for longer periods.")>> :
            i \in IntervalInputs, n \in 0..MaxDays}
    \cup {<<Word("Failed to fetch historical data for"), Word(s), Word(":")>> :
            s \in QuoteSymbols}

\* C21: the detail of a failed history lookup is one of the handler's own
\* messages for that kind of failure and contains no message the provider
\* call raised with.
C21_NoProviderText ==
    (resp.op = "get_history" /\ resp.status >= 400) =>
        /\ resp.detail \in HistoryErrorDetails
        /\ \A m \in ProviderMessages : ~HasPhrase(resp.detail, m)

-----------------------------------------------------------------------------
(* Properties of the string rule of the period reconciliation, checked under
   SpecHistory *)

\* the intervals below one day
IntradayIntervals == {"1m", "2m", "5m", "15m", "30m", "60m", "90m", "1h"}

\* the periods that are safe at every intraday interval
KnownSafePeriods == {<<"1", "d">>, <<"5", "d">>, <<"7", "d">>, <<"6", "0", "d">>}

\* C23: at an intraday interval, a requested period whose day count does not
\* resolve and that is not one of 1d, 5d, 7d, 60d is replaced by the
\* interval's cap, and the response that carries the history records the
\* adjustment.
C23_StringRuleCaps ==
    (/\ history_call /= None
     /\ Lookup.request.interval \in IntradayIntervals
     /\ ~Resolves(Lookup.request.period)
     /\ Lookup.request.period \notin KnownSafePeriods) =>
        LET cap == Append(DigitsOf(CapDays(Lookup.request.interval)), "d")
        IN /\ Lookup.period = cap
           /\ resp.status = 200 =>
                /\ resp.body.period = cap
                /\ resp.body.adjusted = Some(TRUE)
                /\ resp.body.requestedPeriod = Some(Lookup.request.period)
                /\ resp.body.actualPeriod = Some(cap)

-----------------------------------------------------------------------------
(* add_to_portfolio as concurrent requests run it: every request has a
   session of its own (get_db), and the two queries of a request and its
   insert with commit are separate statements of the database *)

\* the two queries (routes.py:159-166): the holding is looked up, the
\* holdings of the owner are counted, and the new row is built
add_to_portfolio_query(r, u, holding_data) ==
    /\ adding[r] = None
    /\ IF FilterUserSymbol(holdings, u, holding_data.symbol) /= {}
       THEN /\ resp' = Response("add_to_portfolio", u, 400,
                                "Holding already exists. Use PUT to update.", NoBody)
            /\ UNCHANGED adding
       ELSE /\ adding' = [adding EXCEPT ![r] =
                            Some(HoldingDB(u, holding_data.symbol, holding_data.shares,
                                           holding_data.averageCost,
                                           LastPosition(holdings, u)))]
            /\ UNCHANGED resp
    /\ UNCHANGED <<holdings, pc, provider, cache, ret, watchlist, history_call, called,
                   news_feed>>

\* db.add(new_holding); db.commit() (routes.py:168-176); the table refuses a
\* second row of the same key, which fails the commit
add_to_portfolio_commit(r, commit_ok) ==
    /\ adding[r] /= None
    /\ adding' = [adding EXCEPT ![r] = None]
    /\ LET new_holding == adding[r][1]
       IN IF commit_ok /\ PrimaryKeyOK(holdings \cup {new_holding})
          THEN /\ holdings' = holdings \cup {new_holding}
               /\ resp' = Response("add_to_portfolio", new_holding.user_id, 200, "",
                                   new_holding)
          ELSE /\ UNCHANGED holdings
               /\ resp' = Response("add_to_portfolio", new_holding.user_id, 500,
                                   "Database error adding holding.", NoBody)
    /\ UNCHANGED <<pc, provider, cache, ret, watchlist, history_call, called, news_feed>>

-----------------------------------------------------------------------------
(* SpecConcurrentAdds: add requests of one owner, two of them at a time *)

NextConcurrentAdds ==
    \E r \in Requests :
        \/ \E u \in Owners, h \in HoldingCreateInputs : add_to_portfolio_query(r, u, h)
        \/ \E ok \in BOOLEAN : add_to_portfolio_commit(r, ok)

SpecConcurrentAdds == Init /\ [][NextConcurrentAdds]_vars

\* C26: however the steps of concurrent adds of one owner interleave, no two
\* holdings of that owner are stored on the same position.
C26_DistinctPositions ==
    \A a, b \in holdings :
        (a.user_id = b.user_id /\ a.position = b.position) => a = b

-----------------------------------------------------------------------------
(* SpecOwners: two owners writing their holdings and watchlists *)

TwoOwners == {"alice", "bob"}
OwnerSymbols == {"AAPL", "MSFT"}

OwnerAddInputs == {[symbol |-> s, shares |-> 2, averageCost |-> 3] : s \in OwnerSymbols}

OwnerReorderInputs == {<<"MSFT", "AAPL">>, <<"MSFT">>}

\* a list that replaces the portfolio and a list that is rejected
OwnerUploadInputs ==
    {UploadList(ss, <<<<2, 3>>, <<1, 0>>>>) : ss \in {<<"MSFT", "AAPL">>, <<"AAPL", "AAPL">>}}

OwnerWatchInputs == {<<"a", "a", "p", "l">>}

NextOwners ==
    \E u \in TwoOwners :
        \/ \E h \in OwnerAddInputs, ok \in BOOLEAN : add_to_portfolio(u, h, ok)
        \/ \E ok \in BOOLEAN : update_holding(u, "AAPL", 1, 0, ok)
        \/ \E s \in OwnerSymbols, ok \in BOOLEAN : delete_holding(u, s, ok)
        \/ \E ok \in BOOLEAN : delete_holding_renumber(ok)
        \/ \E l \in OwnerReorderInputs, ok \in BOOLEAN : reorder_portfolio(u, l, ok)
        \/ \E hs \in OwnerUploadInputs, ok \in BOOLEAN : upload_portfolio(u, hs, ok)
        \/ \E w \in OwnerWatchInputs, ok \in BOOLEAN : add_to_watchlist(u, w, ok)
        \/ \E w \in OwnerWatchInputs, ok \in BOOLEAN : remove_from_watchlist(u, w, ok)

SpecOwners == Init /\ [][NextOwners]_vars

\* the owner a step acts for: the owner of the delete whose first or second
\* commit the step is, otherwise the owner the response goes to
StepOwner ==
    IF pc' = pc THEN resp'.user
    ELSE IF pc'.op = "delete_holding" THEN pc'.user_id
    ELSE pc.user_id

\* C27: a step of an add, update, delete, reorder or upload of holdings or of
\* a watchlist add or remove of one owner, answered with success or with an
\* error, leaves the holdings rows and the watchlist rows of every other
\* owner exactly as they were.
C27_OwnerIsolation ==
    [][ \A b \in TwoOwners \ {StepOwner} :
            /\ {h \in holdings' : h.user_id = b} = {h \in holdings : h.user_id = b}
            /\ {w \in watchlist' : w.user_id = b} = {w \in watchlist : w.user_id = b}
      ]_vars

\* alice replaced her portfolio by upload while bob has two holdings and a
\* watchlist entry
C27_Witness ==
    /\ resp.op = "upload_portfolio" /\ resp.status = 200 /\ resp.user = "alice"
    /\ Cardinality({h \in holdings : h.user_id = "bob"}) = 2
    /\ Cardinality({h \in holdings : h.user_id = "alice"}) = 2
    /\ \E w \in watchlist : w.user_id = "bob"

-----------------------------------------------------------------------------
(* SpecMemo: direct calls of the memoized get_stock_info while the
   provider's data changes *)

NextMemo ==
    \/ \E s \in LookupSymbols : get_stock_info(s)
    \/ \E s \in LookupSymbols, d \in LookupData : provider_update(s, d)

SpecMemo == InitLookup /\ [][NextMemo]_vars

\* C28: the cache of get_stock_info takes up a value only when a call for
\* that symbol returns, and then the returned Quote; a call that raises was
\* not served from the cache and leaves no entry for its symbol; and a call
\* for a symbol without an entry, as every symbol is whose calls have all
\* failed, runs on the provider's data of that moment, so it returns a Quote
\* whenever the provider has data by then.
C28_FailuresNotCached ==
    [][ \A s \in LookupSymbols :
            /\ cache'[s] /= cache[s] =>
                  /\ ret'.symbol = s /\ ret'.kind = "return"
                  /\ cache'[s] = Some(ret'.value)
            /\ get_stock_info(s) =>
                  /\ ret'.kind = "raise" => (~ret'.hit /\ cache[s] = None /\ cache'[s] = None)
                  /\ cache[s] = None =>
                        /\ ~ret'.hit
                        /\ ret'.kind = GetStockInfoBody(s, provider[s]).kind
                        /\ ret'.value = GetStockInfoBody(s, provider[s]).value
      ]_vars

\* the last call, for AAPL, failed and has left no entry; the provider has
\* data for AAPL by now, while the Quote of MSFT is cached
C28_Witness ==
    /\ ret.symbol = "AAPL" /\ ret.kind = "raise"
    /\ cache["AAPL"] = None
    /\ GetStockInfoBody("AAPL", provider["AAPL"]).kind = "return"
    /\ cache["MSFT"] /= None

-----------------------------------------------------------------------------
(* Algebraic properties of the period reconciliation, checked under
   SpecHistory *)

\* C29: for a supported interval, a response that carries the history has
\* the adjustment metadata (adjusted, requestedPeriod, actualPeriod, message)
\* exactly when the period sent to the provider differs from the requested
\* one, and reconciling the period sent to the provider once more with the
\* same interval returns it as it is, without adjustment.
C29_ReconcileIdempotent ==
    (history_call /= None /\ Lookup.request.interval \in SupportedIntervals) =>
        LET changed == Lookup.period /= Lookup.request.period
        IN /\ resp.status = 200 =>
                /\ resp.body.period = Lookup.period
                /\ (resp.body.adjusted = Some(TRUE)) <=> changed
                /\ (resp.body.adjusted = None) <=> ~changed
                /\ (resp.body.requestedPeriod /= None) <=> changed
                /\ (resp.body.actualPeriod /= None) <=> changed
                /\ (resp.body.message /= None) <=> changed
           /\ Reconcile(Lookup.period, Lookup.interval) =
                [period |-> Lookup.period, period_adjusted |-> FALSE]

\* max was asked at interval 90m, 60d was fetched and the history was
\* returned with the adjustment
C29_Witness ==
    /\ history_call /= None
    /\ Lookup.request.interval = "90m"
    /\ Lookup.request.period = <<"m", "a", "x">>
    /\ Lookup.period = <<"6", "0", "d">>
    /\ resp.status = 200
    /\ resp.body.adjusted = Some(TRUE)

-----------------------------------------------------------------------------
(* Properties of the stored watchlist symbols, checked under SpecWatchlist *)

UppercaseLetters == {"A", "P", "L", "M", "S", "F", "T", "Y", "B", "R", "K"}
LowercaseLetters == {"a", "p", "l", "m", "s", "f", "t", "y", "b", "r", "k"}

\* a lowercase letter and its capital
LetterPairs ==
    {<<"a", "A">>, <<"p", "P">>, <<"l", "L">>, <<"m", "M">>, <<"s", "S">>, <<"f", "F">>,
     <<"t", "T">>, <<"y", "Y">>, <<"b", "B">>, <<"r", "R">>, <<"k", "K">>}

\* the text has a character and consists of letters and digits
IsAlphanumericText(t) ==
    t /= <<>> /\ \A i \in 1..Len(t) : t[i] \in UppercaseLetters \cup LowercaseLetters \cup Digits

\* the text has a character and consists of capital letters and digits
IsUppercaseText(t) ==
    t /= <<>> /\ \A i \in 1..Len(t) : t[i] \in UppercaseLetters \cup Digits

\* the same text up to letter case
SameIgnoringCase(a, b) ==
    /\ Len(a) = Len(b)
    /\ \A i \in 1..Len(a) :
          a[i] = b[i] \/ <<a[i], b[i]>> \in LetterPairs \/ <<b[i], a[i]>> \in LetterPairs

\* the texts a stored symbol can consist of
WatchTexts == WatchSymbolInputs \cup {<<"M", "S", "F", "T">>, <<"A", "a", "p", "l">>}

\* a text together with the string it spells
WatchForms == {[text |-> t, symbol |-> Str(t)] : t \in WatchTexts}

\* the strings spelled by capital letters and digits only
UppercaseSymbols == {f.symbol : f \in {g \in WatchForms : IsUppercaseText(g.text)}}

\* the strings that spell the text in some letter case
SymbolsOfText(t) == {f.symbol : f \in {g \in WatchForms : SameIgnoringCase(g.text, t)}}

\* the owner's watchlist holds the text in some letter case
Watched(db, u, t) == \E w \in db : w.user_id = u /\ w.symbol \in SymbolsOfText(t)

\* C30: after every step, every stored watchlist symbol consists of capital
\* letters and digits and no owner has a symbol stored twice, in whatever
\* letter case; an add of a symbol the owner's watchlist holds in some letter
\* case and a remove of a symbol it does not hold are answered without error
\* and leave the watchlist as it was, and an add of a symbol that is not
\* alphanumeric is answered with the 400 error and leaves the watchlist as it
\* was.
C30_WatchlistSymbols ==
    [][ /\ \A w \in watchlist' : w.symbol \in UppercaseSymbols
        /\ \A w1, w2 \in watchlist' :
              (/\ w1.user_id = w2.user_id
               /\ \E f \in WatchForms : w1.symbol = f.symbol /\ w2.symbol \in SymbolsOfText(f.text))
                  => w1 = w2
        /\ resp'.op = "add_to_watchlist" =>
              \A u \in Owners, s \in WatchSymbolInputs, ok \in BOOLEAN :
                  /\ (~IsAlphanumericText(s) /\ add_to_watchlist(u, s, ok)) =>
                        (resp'.status = 400 /\ watchlist' = watchlist)
                  /\ (Watched(watchlist, u, s) /\ add_to_watchlist(u, s, ok)) =>
                        (resp'.status = 200 /\ watchlist' = watchlist)
        /\ resp'.op = "remove_from_watchlist" =>
              \A u \in Owners, s \in WatchSymbolInputs, ok \in BOOLEAN :
                  (~Watched(watchlist, u, s) /\ remove_from_watchlist(u, s, ok)) =>
                        (resp'.status = 200 /\ watchlist' = watchlist)
      ]_vars

\* an add in another letter case was answered as already present, while
\* three symbols are stored
C30_Witness ==
    /\ resp.op = "add_to_watchlist" /\ resp.status = 200
    /\ resp.body = [message |-> "AAPL is already in watchlist"]
    /\ {w.symbol : w \in watchlist} = {"AAPL", "MSFT", "SPY"}

====
